---- MODULE Spec2Model ----
(***************************************************************************)
(* Model of the pocket-remote desktop host (src/desktop/src-tauri/src):    *)
(* the per-connection session loop handle_connection (lib.rs), the         *)
(* approval commands (lib.rs), the WebSocket capture thread                *)
(* (screen_capture.rs) and the data-channel session and its capture loop   *)
(* (webrtc_screen.rs).                                                     *)
(***************************************************************************)
EXTENDS Integers, Sequences, FiniteSets, TLC

\* ---------------------------------------------------------------- bounds
NumSessions == 1     \* connections accepted by start_server
MaxMsgs     == 4     \* control messages read by the host, over all sessions
MaxRequests == 1     \* approval requests created (one uuid each)
MaxWebRTC   == 1     \* WebRTCScreenShare objects constructed
MaxFrames   == 1     \* frames sent by each capture task
MaxDim      == 4     \* widths and heights handed to the encoder: 1..MaxDim
MaxEncFrames == 16   \* frames one H264Encoder encodes between two rebuilds
MaxFragments == 64   \* packets of one encoded frame: every count 1..MaxFragments
WideFragments == 256 \* one more fragment count, past the one-byte header fields
MaxDelta    == 2     \* crop sizes within MaxDelta pixels of each threshold of encode_frame
MaxCoord    == 2     \* the screen is MaxCoord x MaxCoord; region coordinates reach one past it
MaxInbox    == 3     \* messages one client sends on its connection
MaxConns    == 4     \* connections accepted while connected_device is watched
MaxApRequests == 3     \* approval requests issued by the Auth handlers
MaxAnswers  == 3       \* webrtc_answer messages handled on one data-channel session
MaxCapFrames == 2      \* frames one capture loop grabs
MaxBcFrames == 5     \* frames the capture thread sends into the broadcast
MaxMouseMsgs == 4    \* mouse_position messages sent on the connection
MaxRegionMsgs == 3   \* region messages handled by the connection

\* ------------------------------------------------------ program constants
BroadcastCapacity   == 2     \* broadcast::channel(2)
RunningCheckEvery   == 30    \* capture_loop reads capture_running every 30 frames
keyframe_interval   == 15    \* H264Encoder::new: keyframe_interval: 15
max_packet_size     == 15 * 1024   \* encode_frame_h264: let max_packet_size
max_size            == 63 * 1024   \* encode_frame: let max_size

Sessions   == 1..NumSessions
RequestIds == 1..MaxRequests
RtcIds     == 1..MaxWebRTC

\* AppState.auth_token and the tokens a client may present
AuthToken == "T"
Tokens    == {AuthToken, "X"}

NoRx      == -1      \* frame_rx = None
NoSession == 0       \* webrtc_session = None, connected_device = None
NoRequest == 0

NoMsg == [type |-> "none", token |-> "", ext |-> FALSE]

\* no binary message written yet
NoBinary == [header |-> <<>>, payload |-> "none"]
\* the Vec<u8> the WebSocket capture thread broadcasts: h264_data, the
\* bitstream as encode_bgra returned it, nothing pushed in front of it
WsFrame == [header |-> <<>>, payload |-> "h264"]

\* a WebRTCScreenShare object together with its capture_loop task
NoRtc == [owner |-> NoSession, capture_running |-> FALSE, loop |-> "none",
          frame_count |-> 0, dc |-> "none"]

VARIABLES
    \* locals of handle_connection, one copy per connection
    pc,               \* position of the connection task
    authenticated,
    screen_sharing,
    frame_rx,         \* NoRx, or the number of frames waiting in the receiver
    webrtc_session,   \* NoSession, or the id of the WebRTCScreenShare held
    cur,              \* the Auth message last read: its token and is_external
    req,              \* request_id of the Auth handler in progress
    approved,         \* the local `approved` of the Auth handler
    out,              \* text messages written to the client, in order
    ws_sent,          \* binary frames written to the client's WebSocket
    ws_binary,        \* the last Message::Binary written to the client's WebSocket
    ext_ok,           \* the client has sent auth{valid token, is_external}
    \* AppState
    connected_device,
    ws_capture_running,
    pending_connections,
    pending_requests,
    \* approval one-shot channels, by request id
    chan,             \* "unused", "empty", "true", "false", "closed"
    req_owner,
    next_request,
    result,           \* what the waiting handler observed
    \* the WebSocket capture thread of ScreenCapturer::start_capture
    ws_pc,
    \* WebRTCScreenShare objects
    rtc,
    next_rtc,
    msgs              \* control messages read so far

sessVars     == <<pc, authenticated, screen_sharing, frame_rx, webrtc_session,
                  cur, req, approved, out, ws_sent, ext_ok>>
approvalVars == <<pending_connections, pending_requests, chan, req_owner,
                  next_request, result>>
captureVars  == <<ws_capture_running, ws_pc>>
rtcVars      == <<rtc, next_rtc>>
vars == <<sessVars, approvalVars, captureVars, rtcVars, connected_device, msgs,
          ws_binary>>

\* ------------------------------------------------- the H.264 video pipeline
\* One H264Encoder and the loop that drives it, in video mode: capture_loop
\* with the global H264_ENCODER and FORCE_KEYFRAME (webrtc_screen.rs), or the
\* WebSocket capture thread with its local h264_encoder and WS_FORCE_KEYFRAME
\* (screen_capture.rs).
VARIABLES
    enc_user,         \* "capture_loop" or "ws_thread"; "none" outside VideoSpec
    encoder,          \* Option<H264Encoder>
    FORCE_KEYFRAME,   \* the static AtomicBool of the driving loop
    dc_state,         \* ready_state of the data channel
    loop_pc,          \* capture_loop: "encode", or "check" with packets in hand
    packets,          \* what the encode step returned
    first_sent,       \* kind of the first packet sent after the open event
    last,             \* the last encode_bgra call
    run               \* frames emitted in a row without a forced intra frame

encVars == <<enc_user, encoder, FORCE_KEYFRAME, dc_state, loop_pc, packets,
             first_sent, last, run>>

\* ------------------------------------------------ packets of the data channel
\* encode_frame_auto and the send loop of capture_loop. The bytes of an encoded
\* frame are named by their offsets: a payload is the slice lo..hi-1 of them.
VARIABLES
    pk_mode,          \* ENCODING_MODE: "jpeg" or "h264"
    pk_pc,            \* "idle", or "send" inside `for packet in packets`
    pk_len,           \* length of the encoded frame (JPEG data or bitstream)
    pk_fc,            \* frame_count handed to encode_frame_auto
    pk_packets,       \* Vec<Vec<u8>> returned by encode_frame_auto
    pk_next           \* packets handed to dc.send so far

pktVars == <<pk_mode, pk_pc, pk_len, pk_fc, pk_packets, pk_next>>

\* ------------------------------------------- encode_frame, still-image mode
VARIABLES
    st_crop,          \* <<crop_w, crop_h>> of the last frame encode_frame scaled
    st_sel,           \* <<scale, start_quality>> it picked
    st_new,           \* <<new_width, new_height>> it resized to
    st_q              \* the quality loop: where it is, `quality`, the last output

stillVars == <<st_crop, st_sel, st_new, st_q>>

\* --------------------------------------------------- the shared capture region
\* state.capture_region, the three messages that write it, and the two capture
\* paths that crop by it
VARIABLES
    capture_region,   \* Option<CaptureRegion>
    rg_auth,          \* `authenticated` of the connection sending the messages
    rg_last,          \* the last region message handled
    rg_since,         \* what followed the last set_capture_region
    rg_n,             \* region messages handled
    rg_frame          \* the crop of the last frame a capture path produced

regionVars == <<capture_region, rg_auth, rg_last, rg_since, rg_n, rg_frame>>

\* ------------------------------------- one connection and its unread messages
\* handle_connection reads the WebSocket only at the top of its loop: what the
\* client sends while an arm runs waits in the stream
VARIABLES
    cn_pc,            \* "select", "await_approval" (inside the Auth arm), "closed"
    cn_authenticated, \* `authenticated`
    cn_inbox,         \* messages sent by the client and not read yet
    cn_sent,          \* messages the client has sent
    cn_peer,          \* "open", or "closed" once the client has closed
    cn_chan,          \* the one-shot channel of the approval request
    cn_pending,       \* the request is in pending_requests and pending_connections
    cn_honored,       \* control messages that took effect, with their phase
    cn_replies,       \* results sent, each with the outcome of its OS call
    cn_webrtc_session,\* `webrtc_session`: NoSession or the session held
    cn_constructed    \* WebRTCScreenShare values constructed so far

connVars == <<cn_pc, cn_authenticated, cn_inbox, cn_sent, cn_peer, cn_chan,
              cn_pending, cn_honored, cn_replies, cn_webrtc_session,
              cn_constructed>>
\* ------------------------------- the mouse_interval branch of one connection
VARIABLES
    mouse             \* authenticated, screen_sharing, last_mouse_pos, messages sent

\* ------------------------------ the frame broadcast and one subscribed session
VARIABLES
    bc                \* the channel buffer, the session's receiver, what it forwarded

\* ------------------------------------ connected_device and several connections
VARIABLES
    dev               \* each connection's place and `authenticated`, connected_device

\* ------------------------------ the approval bookkeeping of several requests
VARIABLES
    ap                \* pending_connections, pending_requests, channels, handlers

\* ------------------------------- one WebRTCScreenShare and its capture loops
VARIABLES
    cap               \* capture_running, the loop's place, loops spawned, answers

auxVars == <<encVars, pktVars, stillVars, regionVars, connVars, mouse, bc, dev, ap,
             cap>>

\* `for attempt in 1..=10`
AcquireAttempts == 10

\* WebRTCScreenShare::new: capture_running = false, no loop
CapStart ==
    cap = [capture_running |-> FALSE, loop |-> "none", attempt |-> 0,
           frame_count |-> 0, spawns |-> 0, answers |-> 0, closed |-> FALSE,
           last |-> "none"]

ApIds == 1..MaxApRequests

\* pending_connections: HashMap::new(), pending_requests: Vec::new()
ApStart ==
    ap = [pending_connections |-> {}, pending_requests |-> <<>>,
          chan |-> [r \in ApIds |-> "unused"],
          pc |-> [r \in ApIds |-> "none"],
          next_request |-> 1, ret |-> "none"]

Conns == 1..MaxConns

\* no connection accepted; connected_device: RwLock::new(None)
DevStart ==
    dev = [pc |-> [c \in Conns |-> "unconnected"],
           authenticated |-> [c \in Conns |-> FALSE],
           connected_device |-> NoSession]


\* broadcast::channel(2) with its first receiver dropped; frame_rx = None
BcStart ==
    bc = [buf |-> <<>>, tail |-> 0, rx |-> 0, got |-> <<>>, lagged |-> 0,
          open |-> TRUE]


\* `let mut last_mouse_pos: (i32, i32) = (-1, -1)`, nothing sent
MouseStart ==
    mouse = [authenticated |-> FALSE, screen_sharing |-> FALSE,
             last_mouse_pos |-> <<0 - 1, 0 - 1>>, out |-> <<>>]


ConnStart ==
    /\ cn_pc = "select"
    /\ cn_authenticated = FALSE
    /\ cn_inbox = <<>>
    /\ cn_sent = 0
    /\ cn_peer = "open"
    /\ cn_chan = "none"
    /\ cn_pending = FALSE
    /\ cn_honored = {}
    /\ cn_replies = {}
    /\ cn_webrtc_session = NoSession
    /\ cn_constructed = 0

\* capture_region: Arc::new(RwLock::new(None))
NoRegion == [some |-> FALSE]
NoFrame == [path |-> "none", rect |-> <<>>, tick |-> FALSE]
NoRegionMsg == [kind |-> "none", arg |-> <<>>, twice |-> FALSE]

RegionStart ==
    /\ capture_region = NoRegion
    /\ rg_auth = FALSE
    /\ rg_last = NoRegionMsg
    /\ rg_since = "none"
    /\ rg_n = 0
    /\ rg_frame = NoFrame

\* no frame scaled yet
\* encode_frame has not been called
NoQuality == [pc |-> "idle", quality |-> 0, len |-> 0, ok |-> TRUE]

StillStart ==
    /\ st_crop = <<0, 0>>
    /\ st_sel = <<0, 0>>
    /\ st_new = <<0, 0>>
    /\ st_q = NoQuality

\* no frame encoded yet; ENCODING_MODE defaults to Jpeg
PktStart ==
    /\ pk_mode = "jpeg"
    /\ pk_pc = "idle"
    /\ pk_len = 0
    /\ pk_fc = 0
    /\ pk_packets = <<>>
    /\ pk_next = 0

\* None::<H264Encoder>
NoEncoder == [exists |-> FALSE, width |-> 0, height |-> 0, frame_count |-> 0,
              intra_pending |-> FALSE, fresh |-> FALSE]
NoCall == [res |-> "none", fc |-> 0, kf |-> FALSE, first |-> FALSE, len_ok |-> FALSE]

\* the pipeline before its first step
EncStart ==
    /\ encoder = NoEncoder
    /\ FORCE_KEYFRAME = FALSE
    /\ dc_state = "connecting"
    /\ loop_pc = "encode"
    /\ packets = "none"
    /\ first_sent = "none"
    /\ last = NoCall
    /\ run = 0

\* ------------------------------------------------------------------ Init
\* AppState::new and the state before any connection is accepted
HostInit ==
    /\ pc = [s \in Sessions |-> "unconnected"]
    /\ authenticated = [s \in Sessions |-> FALSE]
    /\ screen_sharing = [s \in Sessions |-> FALSE]
    /\ frame_rx = [s \in Sessions |-> NoRx]
    /\ webrtc_session = [s \in Sessions |-> NoSession]
    /\ cur = [s \in Sessions |-> NoMsg]
    /\ req = [s \in Sessions |-> NoRequest]
    /\ approved = [s \in Sessions |-> FALSE]
    /\ out = [s \in Sessions |-> <<>>]
    /\ ws_sent = [s \in Sessions |-> 0]
    /\ ws_binary = [s \in Sessions |-> NoBinary]
    /\ ext_ok = [s \in Sessions |-> FALSE]
    /\ connected_device = NoSession
    /\ ws_capture_running = TRUE
    /\ pending_connections = {}
    /\ pending_requests = <<>>
    /\ chan = [r \in RequestIds |-> "unused"]
    /\ req_owner = [r \in RequestIds |-> NoSession]
    /\ next_request = 1
    /\ result = [r \in RequestIds |-> "none"]
    /\ ws_pc = "wait"
    /\ rtc = [i \in RtcIds |-> NoRtc]
    /\ next_rtc = 1
    /\ msgs = 0

Init ==
    /\ HostInit /\ enc_user = "none" /\ EncStart /\ PktStart /\ StillStart
    /\ RegionStart /\ ConnStart /\ MouseStart /\ BcStart /\ DevStart
    /\ ApStart
    /\ CapStart

\* --------------------------------------------------------------- helpers
Send(s, m) == out' = [out EXCEPT ![s] = Append(@, m)]

\* mutation: the command list is written before the auth response
SendAuthOk_CommandListFirst(s) ==
    out' = [out EXCEPT ![s] = Append(Append(@, "command_list"), "auth_ok")]

\* a successful Auth writes AuthResponse{success: true, screen_info} and then
\* CommandList{commands}
SendAuthOk(s) == out' = [out EXCEPT ![s] = Append(Append(@, "auth_ok"), "command_list")]

\* mutation: the polling list is never pruned
Retain_Nothing(q, r) == q

\* Vec::retain(|r| r.request_id != request_id)
RECURSIVE Retain(_, _)
Retain(q, r) ==
    IF q = <<>> THEN <<>>
    ELSE IF Head(q) = r THEN Retain(Tail(q), r)
         ELSE <<Head(q)>> \o Retain(Tail(q), r)

\* a control message is read by the select! branch `msg = read.next()`
Read(s) ==
    /\ pc[s] = "select"
    /\ msgs < MaxMsgs
    /\ msgs' = msgs + 1

\* the loop is left: the locals of handle_connection are dropped (the broadcast
\* receiver unsubscribes, the Arc<WebRTCScreenShare> is released without
\* close()), connected_device is cleared, and the record of what was written
\* to the connection goes with it
Disconnect(s) ==
    /\ pc' = [pc EXCEPT ![s] = "closed"]
    /\ authenticated' = [authenticated EXCEPT ![s] = FALSE]
    /\ screen_sharing' = [screen_sharing EXCEPT ![s] = FALSE]
    /\ frame_rx' = [frame_rx EXCEPT ![s] = NoRx]
    /\ webrtc_session' = [webrtc_session EXCEPT ![s] = NoSession]
    /\ cur' = [cur EXCEPT ![s] = NoMsg]
    /\ req' = [req EXCEPT ![s] = NoRequest]
    /\ out' = [out EXCEPT ![s] = <<>>]
    /\ ws_sent' = [ws_sent EXCEPT ![s] = 0]
    /\ ext_ok' = [ext_ok EXCEPT ![s] = FALSE]
    /\ connected_device' = NoSession

\* ------------------------------------------------- handle_connection: accept
Accept(s) ==
    /\ pc[s] = "unconnected"
    \* connections are numbered in the order they are accepted
    /\ \A p \in Sessions : p < s => pc[p] # "unconnected"
    /\ pc' = [pc EXCEPT ![s] = "select"]
    /\ UNCHANGED <<authenticated, screen_sharing, frame_rx, webrtc_session,
                   cur, req, approved, out, ws_sent, ext_ok>>
    /\ UNCHANGED <<approvalVars, captureVars, rtcVars, connected_device, msgs>>
    /\ UNCHANGED <<ws_binary, auxVars>>

\* Message::Close, a read error or the end of the stream
Close(s) ==
    /\ pc[s] = "select"
    /\ Disconnect(s)
    /\ UNCHANGED approved
    /\ UNCHANGED <<approvalVars, captureVars, rtcVars, msgs>>
    /\ UNCHANGED <<ws_binary, auxVars>>

\* --------------------------------------------------- handle_connection: Auth
\* mutation: the token is not compared
TokenValid_AnyToken(token) == token \in Tokens

\* let token_valid = token == state.auth_token
TokenValid(token) == token = AuthToken

\* mutation: a refused token ends the authentication of the connection
AuthRejected_Resets(s) ==
    /\ Send(s, "auth_fail")
    /\ authenticated' = [authenticated EXCEPT ![s] = FALSE]
    /\ UNCHANGED <<pc, req, connected_device, approvalVars>>

\* `if !token_valid`: the refusal is written; the loop goes on
AuthRejected(s) ==
    /\ Send(s, "auth_fail")
    /\ UNCHANGED <<pc, authenticated, req, connected_device, approvalVars>>

\* `else if is_external`: approved without asking
AuthExternal(s) ==
    /\ authenticated' = [authenticated EXCEPT ![s] = TRUE]
    /\ connected_device' = s
    /\ SendAuthOk(s)
    /\ UNCHANGED <<pc, req, approvalVars>>

\* mutation: a local connection is approved without asking
AuthLocal_NoWait(s) == AuthExternal(s)

\* `else`: the request is registered and the handler awaits the reply
AuthLocal(s) ==
    /\ next_request <= MaxRequests
    /\ pending_connections' = pending_connections \cup {next_request}
    /\ pending_requests' = Append(pending_requests, next_request)
    /\ chan' = [chan EXCEPT ![next_request] = "empty"]
    /\ req_owner' = [req_owner EXCEPT ![next_request] = s]
    /\ req' = [req EXCEPT ![s] = next_request]
    /\ next_request' = next_request + 1
    /\ pc' = [pc EXCEPT ![s] = "await_approval"]
    /\ UNCHANGED <<authenticated, connected_device, out, result>>

\* WsMessage::Auth up to its first suspension point
Auth(s, token, is_external) ==
    /\ Read(s)
    /\ cur' = [cur EXCEPT ![s] = [type |-> "auth", token |-> token, ext |-> is_external]]
    /\ ext_ok' = [ext_ok EXCEPT ![s] = @ \/ (token = AuthToken /\ is_external)]
    /\ IF ~TokenValid(token) THEN AuthRejected(s)
       ELSE IF is_external THEN AuthExternal(s)
       ELSE AuthLocal(s)
    /\ UNCHANGED <<screen_sharing, frame_rx, webrtc_session, approved, ws_sent>>
    /\ UNCHANGED <<captureVars, rtcVars>>
    /\ UNCHANGED <<ws_binary, auxVars>>

\* mutation: an elapsed timer counts as an approval
ApprovalValue_TimeoutApproves(outcome) ==
    IF outcome = "elapsed" THEN TRUE
    ELSE IF outcome = "closed" THEN FALSE
    ELSE outcome = "true"

\* tokio::time::timeout(30 s, rx).await.unwrap_or(Ok(false)).unwrap_or(false)
\* outcome: "elapsed" (Err(Elapsed)), "closed" (Ok(Err(RecvError))),
\*          "true" / "false" (Ok(Ok(b)))
ApprovalValue(outcome) ==
    IF outcome = "elapsed" THEN FALSE
    ELSE IF outcome = "closed" THEN FALSE
    ELSE outcome = "true"

\* the await of the approval completes: the one-shot value if one was sent
\* (the receiver is polled before the timer), otherwise the 30 s timer
ApprovalWake(s) ==
    /\ pc[s] = "await_approval"
    /\ LET r == req[s]
           outcome == IF chan[r] \in {"true", "false"} THEN chan[r] ELSE "elapsed"
       IN /\ approved' = [approved EXCEPT ![s] = ApprovalValue(outcome)]
          /\ result' = [result EXCEPT ![r] =
                           IF outcome = "elapsed" THEN "timeout"
                           ELSE IF ApprovalValue(outcome) THEN "approved" ELSE "denied"]
          \* the receiver is dropped with the Timeout future
          /\ chan' = [chan EXCEPT ![r] = IF outcome = "elapsed" THEN "closed" ELSE @]
    /\ pc' = [pc EXCEPT ![s] = "approval_done"]
    /\ UNCHANGED <<authenticated, screen_sharing, frame_rx, webrtc_session,
                   cur, req, out, ws_sent, ext_ok>>
    /\ UNCHANGED <<pending_connections, pending_requests, req_owner,
                   next_request>>
    /\ UNCHANGED <<captureVars, rtcVars, connected_device, msgs>>
    /\ UNCHANGED <<ws_binary, auxVars>>

\* lines 427-457: remove the request from both collections, then answer
ApprovalFinish(s) ==
    /\ pc[s] = "approval_done"
    /\ pending_connections' = pending_connections \ {req[s]}
    /\ pending_requests' = Retain(pending_requests, req[s])
    /\ IF approved[s] THEN
           /\ authenticated' = [authenticated EXCEPT ![s] = TRUE]
           /\ connected_device' = s
           /\ SendAuthOk(s)
       ELSE
           /\ Send(s, "auth_fail")
           /\ UNCHANGED <<authenticated, connected_device>>
    /\ pc' = [pc EXCEPT ![s] = "select"]
    /\ approved' = [approved EXCEPT ![s] = FALSE]
    /\ UNCHANGED <<screen_sharing, frame_rx, webrtc_session, cur, req,
                   ws_sent, ext_ok>>
    /\ UNCHANGED <<chan, req_owner, next_request, result>>
    /\ UNCHANGED <<captureVars, rtcVars, msgs>>
    /\ UNCHANGED <<ws_binary, auxVars>>

\* ------------------------------------------- Tauri command respond_to_connection
\* the value respond_to_connection returns: Ok(()), Err("Failed to send
\* response") when the receiver is gone, Err("Connection request not found")
RespondResult(request_id) ==
    IF request_id \in pending_connections THEN
        IF chan[request_id] = "empty" THEN "ok" ELSE "send_failed"
    ELSE "not_found"

respond_to_connection(request_id, approve) ==
    /\ pending_requests' = Retain(pending_requests, request_id)
    /\ pending_connections' = pending_connections \ {request_id}
    /\ chan' = IF RespondResult(request_id) = "ok"
               THEN [chan EXCEPT ![request_id] = IF approve THEN "true" ELSE "false"]
               ELSE chan
    /\ UNCHANGED <<req_owner, next_request, result>>
    /\ UNCHANGED <<sessVars, captureVars, rtcVars, connected_device, msgs>>
    /\ UNCHANGED <<ws_binary, auxVars>>

\* ------------------------------------- handle_connection: reliable frames
\* mutation: the `if authenticated` guard of the match arm is missing
StartScreenShare_NoAuthCheck(s) ==
    /\ Read(s)
    /\ frame_rx' = [frame_rx EXCEPT ![s] = 0]
    /\ screen_sharing' = [screen_sharing EXCEPT ![s] = TRUE]
    /\ UNCHANGED <<pc, authenticated, webrtc_session, cur, req, approved, out,
                   ws_sent, ext_ok>>
    /\ UNCHANGED <<approvalVars, captureVars, rtcVars, connected_device>>
    /\ UNCHANGED <<ws_binary, auxVars>>

\* WsMessage::StartScreenShare if authenticated
StartScreenShare(s) ==
    /\ Read(s)
    /\ IF authenticated[s] THEN
           \* a new subscription sees only the frames sent after it
           /\ frame_rx' = [frame_rx EXCEPT ![s] = 0]
           /\ screen_sharing' = [screen_sharing EXCEPT ![s] = TRUE]
       ELSE UNCHANGED <<frame_rx, screen_sharing>>
    /\ UNCHANGED <<pc, authenticated, webrtc_session, cur, req, approved, out,
                   ws_sent, ext_ok>>
    /\ UNCHANGED <<approvalVars, captureVars, rtcVars, connected_device>>
    /\ UNCHANGED <<ws_binary, auxVars>>

\* WsMessage::StopScreenShare if authenticated
StopScreenShare(s) ==
    /\ Read(s)
    /\ IF authenticated[s] THEN
           /\ screen_sharing' = [screen_sharing EXCEPT ![s] = FALSE]
           /\ frame_rx' = [frame_rx EXCEPT ![s] = NoRx]
       ELSE UNCHANGED <<frame_rx, screen_sharing>>
    /\ UNCHANGED <<pc, authenticated, webrtc_session, cur, req, approved, out,
                   ws_sent, ext_ok>>
    /\ UNCHANGED <<approvalVars, captureVars, rtcVars, connected_device>>
    /\ UNCHANGED <<ws_binary, auxVars>>

\* the select! branch `frame = rx.recv(), if screen_sharing`: the frame is
\* written as Message::Binary; a failed write breaks out of the loop
ForwardFrame(s, sent) ==
    /\ pc[s] = "select"
    /\ screen_sharing[s]
    /\ frame_rx[s] # NoRx
    /\ frame_rx[s] > 0
    /\ IF sent THEN
           /\ ws_sent[s] < MaxFrames
           /\ frame_rx' = [frame_rx EXCEPT ![s] = @ - 1]
           /\ ws_sent' = [ws_sent EXCEPT ![s] = @ + 1]
           /\ ws_binary' = [ws_binary EXCEPT ![s] = WsFrame]
           /\ UNCHANGED <<pc, authenticated, screen_sharing, webrtc_session,
                          cur, req, connected_device>>
           /\ UNCHANGED <<out, ext_ok>>
       ELSE Disconnect(s) /\ UNCHANGED ws_binary
    /\ UNCHANGED approved
    /\ UNCHANGED <<approvalVars, captureVars, rtcVars, msgs>>
    /\ UNCHANGED auxVars

\* --------------------------------------- ScreenCapturer::start_capture thread
\* `while !ws_capture_running.load() { sleep(100 ms) }`, then Monitor::all()
WsWaitRunning ==
    /\ ws_pc = "wait"
    /\ ws_capture_running
    /\ ws_pc' = "capturing"
    /\ UNCHANGED ws_capture_running
    /\ UNCHANGED <<sessVars, approvalVars, rtcVars, connected_device, msgs>>
    /\ UNCHANGED <<ws_binary, auxVars>>

\* broadcast::Sender::send: every live receiver gets the frame; a receiver
\* that already holds BroadcastCapacity frames loses its oldest one
Broadcast(rx) ==
    [s \in Sessions |->
        IF rx[s] = NoRx THEN NoRx
        ELSE IF rx[s] < BroadcastCapacity THEN rx[s] + 1 ELSE BroadcastCapacity]

ReceiverCount == Cardinality({s \in Sessions : frame_rx[s] # NoRx})

\* one pass of the inner loop `while ws_capture_running.load()`:
\* capture_image, encode, and tx.send when there is a receiver
WsCaptureFrame ==
    /\ ws_pc = "capturing"
    /\ ws_capture_running
    /\ ReceiverCount > 0
    /\ frame_rx' = Broadcast(frame_rx)
    /\ UNCHANGED <<ws_capture_running, ws_pc>>
    /\ UNCHANGED <<pc, authenticated, screen_sharing, webrtc_session, cur,
                   req, approved, out, ws_sent, ext_ok>>
    /\ UNCHANGED <<approvalVars, rtcVars, connected_device, msgs>>
    /\ UNCHANGED <<ws_binary, auxVars>>

\* the inner loop sees ws_capture_running = false: "Capture stopped, waiting
\* for restart...", sleep(1 s), back to the outer loop
WsLoopExit ==
    /\ ws_pc = "capturing"
    /\ ~ws_capture_running
    /\ ws_pc' = "wait"
    /\ UNCHANGED ws_capture_running
    /\ UNCHANGED <<sessVars, approvalVars, rtcVars, connected_device, msgs>>
    /\ UNCHANGED <<ws_binary, auxVars>>

\* ------------------------------------------- handle_connection: data channel
\* connection tasks inside the 200 ms sleep of StartWebRTC
Sleeping == {s \in Sessions : pc[s] = "webrtc_sleep"}

\* WsMessage::StartWebRTC if authenticated, up to the 200 ms sleep
StartWebRTC(s) ==
    /\ Read(s)
    /\ next_rtc + Cardinality(Sleeping) <= MaxWebRTC
    /\ IF authenticated[s] THEN
           /\ ws_capture_running' = FALSE
           /\ pc' = [pc EXCEPT ![s] = "webrtc_sleep"]
       ELSE UNCHANGED <<ws_capture_running, pc>>
    /\ UNCHANGED <<authenticated, screen_sharing, frame_rx, webrtc_session,
                   cur, req, approved, out, ws_sent, ext_ok>>
    /\ UNCHANGED ws_pc
    /\ UNCHANGED <<approvalVars, rtcVars, connected_device>>
    /\ UNCHANGED <<ws_binary, auxVars>>

\* the 200 ms sleep "until the capture has completely stopped": it is taken to
\* outlast one pass of the WebSocket capture thread, so when it returns the
\* thread has seen the flag, unless somebody raised the flag again
SleepElapsed == ws_capture_running \/ ws_pc # "capturing"

\* WebRTCScreenShare::new
NewWebRTCScreenShare(s) ==
    [owner |-> s, capture_running |-> FALSE, loop |-> "none", frame_count |-> 0,
     dc |-> "connecting"]

\* the rest of StartWebRTC: WebRTCScreenShare::new, create_offer, webrtc_offer
StartWebRTCFinish(s, created, offered) ==
    /\ pc[s] = "webrtc_sleep"
    /\ SleepElapsed
    /\ pc' = [pc EXCEPT ![s] = "select"]
    /\ IF created THEN
           /\ rtc' = [rtc EXCEPT ![next_rtc] = NewWebRTCScreenShare(s)]
           \* the session held before, if any, is released without close()
           /\ webrtc_session' = [webrtc_session EXCEPT ![s] = next_rtc]
           /\ next_rtc' = next_rtc + 1
           /\ IF offered THEN Send(s, "webrtc_offer") ELSE UNCHANGED out
       ELSE
           /\ offered = FALSE
           /\ UNCHANGED <<rtc, webrtc_session, next_rtc, out>>
    /\ UNCHANGED <<authenticated, screen_sharing, frame_rx, cur, req, approved,
                   ws_sent, ext_ok>>
    /\ UNCHANGED <<approvalVars, captureVars, connected_device, msgs>>
    /\ UNCHANGED <<ws_binary, auxVars>>

\* WebRTCScreenShare::start_capture: spawn capture_loop unless already running
start_capture(i) ==
    IF rtc[i].capture_running THEN rtc[i]
    ELSE [rtc[i] EXCEPT !.capture_running = TRUE, !.loop = "spawned"]

\* WsMessage::WebRTCAnswer if authenticated: set_answer, then start_capture
WebRTCAnswer(s, answer_ok) ==
    /\ Read(s)
    /\ IF authenticated[s] /\ webrtc_session[s] # NoSession /\ answer_ok THEN
           rtc' = [rtc EXCEPT ![webrtc_session[s]] = start_capture(webrtc_session[s])]
       ELSE UNCHANGED rtc
    /\ UNCHANGED <<pc, authenticated, screen_sharing, frame_rx, webrtc_session,
                   cur, req, approved, out, ws_sent, ext_ok>>
    /\ UNCHANGED next_rtc
    /\ UNCHANGED <<approvalVars, captureVars, connected_device>>
    /\ UNCHANGED <<ws_binary, auxVars>>

\* WebRTCScreenShare::close: capture_running = false, peer_connection.close()
close(i) ==
    [rtc[i] EXCEPT !.capture_running = FALSE, !.dc = "closed"]

\* mutation: the WebSocket capture is not resumed
StopWebRTC_NoResume(s) ==
    /\ Read(s)
    /\ IF authenticated[s] /\ webrtc_session[s] # NoSession THEN
           /\ rtc' = [rtc EXCEPT ![webrtc_session[s]] = close(webrtc_session[s])]
           /\ webrtc_session' = [webrtc_session EXCEPT ![s] = NoSession]
       ELSE UNCHANGED <<rtc, webrtc_session>>
    /\ UNCHANGED <<pc, authenticated, screen_sharing, frame_rx, cur, req, approved,
                   out, ws_sent, ext_ok>>
    /\ UNCHANGED <<ws_capture_running, ws_pc, next_rtc>>
    /\ UNCHANGED <<approvalVars, connected_device>>
    /\ UNCHANGED <<ws_binary, auxVars>>

\* WsMessage::StopWebRTC if authenticated
StopWebRTC(s) ==
    /\ Read(s)
    /\ IF authenticated[s] THEN
           /\ IF webrtc_session[s] # NoSession THEN
                  /\ rtc' = [rtc EXCEPT ![webrtc_session[s]] = close(webrtc_session[s])]
                  /\ webrtc_session' = [webrtc_session EXCEPT ![s] = NoSession]
              ELSE UNCHANGED <<rtc, webrtc_session>>
           /\ ws_capture_running' = TRUE
       ELSE UNCHANGED <<rtc, webrtc_session, ws_capture_running>>
    /\ UNCHANGED <<pc, authenticated, screen_sharing, frame_rx, cur, req, approved,
                   out, ws_sent, ext_ok>>
    /\ UNCHANGED <<ws_pc, next_rtc>>
    /\ UNCHANGED <<approvalVars, connected_device>>
    /\ UNCHANGED <<ws_binary, auxVars>>

\* the data channel opens once the answer is set (the capture loop was
\* spawned by the same handler) and ICE has connected
DataChannelOpen(i) ==
    /\ rtc[i].dc = "connecting"
    /\ rtc[i].loop # "none"
    /\ rtc' = [rtc EXCEPT ![i].dc = "open"]
    /\ UNCHANGED next_rtc
    /\ UNCHANGED <<sessVars, approvalVars, captureVars, connected_device, msgs>>
    /\ UNCHANGED <<ws_binary, auxVars>>

\* on_peer_connection_state_change(Failed): the callback prints the state and
\* returns; the transport carries nothing any more
PeerConnectionFailed(i) ==
    /\ rtc[i].dc \in {"connecting", "open"}
    /\ rtc[i].loop # "none"
    /\ rtc' = [rtc EXCEPT ![i].dc = "failed"]
    /\ UNCHANGED next_rtc
    /\ UNCHANGED <<sessVars, approvalVars, captureVars, connected_device, msgs>>
    /\ UNCHANGED <<ws_binary, auxVars>>

\* ---------------------------------------------- webrtc_screen.rs capture_loop
\* the 3 s wait and the (up to 10) attempts to create the Capturer
CaptureLoopAcquire(i, acquired) ==
    /\ rtc[i].loop = "spawned"
    /\ rtc' = [rtc EXCEPT ![i].loop = IF acquired THEN "running" ELSE "ended"]
    /\ UNCHANGED next_rtc
    /\ UNCHANGED <<sessVars, approvalVars, captureVars, connected_device, msgs>>
    /\ UNCHANGED <<ws_binary, auxVars>>

\* the head of the loop: capture_running is read only when frame_count % 30 == 0
SeesStop(i) ==
    rtc[i].frame_count % RunningCheckEvery = 0 /\ ~rtc[i].capture_running

\* the loop breaks at its head
CaptureLoopExit(i) ==
    /\ rtc[i].loop = "running"
    /\ SeesStop(i)
    /\ rtc' = [rtc EXCEPT ![i].loop = "ended"]
    /\ UNCHANGED next_rtc
    /\ UNCHANGED <<sessVars, approvalVars, captureVars, connected_device, msgs>>
    /\ UNCHANGED <<ws_binary, auxVars>>

\* one pass: capturer.frame(), encode_frame_auto and, when the channel is open,
\* the send; frame_count grows only when the channel was open; a capture error
\* other than WouldBlock ends the loop
CaptureLoopFrame(i, grabbed) ==
    /\ rtc[i].loop = "running"
    /\ ~SeesStop(i)
    /\ IF ~grabbed THEN
           rtc' = [rtc EXCEPT ![i].loop = "ended"]
       ELSE
           /\ rtc[i].dc = "open"
           /\ rtc[i].frame_count < MaxFrames
           /\ rtc' = [rtc EXCEPT ![i].frame_count = @ + 1]
    /\ UNCHANGED next_rtc
    /\ UNCHANGED <<sessVars, approvalVars, captureVars, connected_device, msgs>>
    /\ UNCHANGED <<ws_binary, auxVars>>

\* ------------------------------------------------------------------ Next
Next ==
    \/ \E s \in Sessions : Accept(s)
    \/ \E s \in Sessions : Close(s)
    \/ \E s \in Sessions, token \in Tokens, is_external \in BOOLEAN :
           Auth(s, token, is_external)
    \/ \E s \in Sessions : ApprovalWake(s)
    \/ \E s \in Sessions : ApprovalFinish(s)
    \/ \E r \in RequestIds, approve \in BOOLEAN : respond_to_connection(r, approve)
    \/ \E s \in Sessions : StartScreenShare(s)
    \/ \E s \in Sessions : StopScreenShare(s)
    \/ \E s \in Sessions, sent \in BOOLEAN : ForwardFrame(s, sent)
    \/ WsWaitRunning
    \/ WsCaptureFrame
    \/ WsLoopExit
    \/ \E s \in Sessions : StartWebRTC(s)
    \/ \E s \in Sessions, created \in BOOLEAN, offered \in BOOLEAN :
           StartWebRTCFinish(s, created, offered)
    \/ \E s \in Sessions, answer_ok \in BOOLEAN : WebRTCAnswer(s, answer_ok)
    \/ \E s \in Sessions : StopWebRTC(s)
    \/ \E i \in RtcIds : DataChannelOpen(i)
    \/ \E i \in RtcIds : PeerConnectionFailed(i)
    \/ \E i \in RtcIds, acquired \in BOOLEAN : CaptureLoopAcquire(i, acquired)
    \/ \E i \in RtcIds : CaptureLoopExit(i)
    \/ \E i \in RtcIds, grabbed \in BOOLEAN : CaptureLoopFrame(i, grabbed)

Spec == Init /\ [][Next]_vars

\* the tokio runtime polls a woken connection task, and the 30 s timer of
\* tokio::time::timeout fires: an Auth handler waiting for its approval goes on
FairSpec ==
    /\ Spec
    /\ \A s \in Sessions : WF_vars(ApprovalWake(s)) /\ WF_vars(ApprovalFinish(s))

\* the capture thread polls ws_capture_running every 100 ms while it waits
CaptureFairSpec == Spec /\ WF_vars(WsWaitRunning)

\* ------------------------------------------------------------ H264Encoder
Dims == 1..MaxDim

\* ((x as usize + 1) & !1).max(2)
Align(x) ==
    LET a == ((x + 1) \div 2) * 2
    IN IF a > 2 THEN a ELSE 2

\* H264Encoder::new
H264Encoder_new(width, height) ==
    [exists |-> TRUE, width |-> Align(width), height |-> Align(height),
     frame_count |-> 0, intra_pending |-> FALSE, fresh |-> TRUE]

\* H264Encoder::force_keyframe: encoder.force_intra_frame()
force_keyframe(e) == [e EXCEPT !.intra_pending = TRUE]

\* a variant of is_keyframe without the periodic key frame
is_keyframe_FirstOnly(e) == e.frame_count = 0

\* self.frame_count == 0 || self.frame_count % self.keyframe_interval == 0
is_keyframe(e) == e.frame_count = 0 \/ e.frame_count % keyframe_interval = 0

\* a variant of the resolution change that keeps frame_count
Resized_KeepsCount(e, width, height) ==
    IF Align(width) # e.width \/ Align(height) # e.height
    THEN [exists |-> TRUE, width |-> Align(width), height |-> Align(height),
          frame_count |-> e.frame_count, intra_pending |-> FALSE, fresh |-> TRUE]
    ELSE e

\* the encoder as encode_bgra has it when it reaches the encode: a changed
\* aligned size has replaced the codec and reset frame_count
Resized(e, width, height) ==
    IF Align(width) # e.width \/ Align(height) # e.height
    THEN [exists |-> TRUE, width |-> Align(width), height |-> Align(height),
          frame_count |-> 0, intra_pending |-> FALSE, fresh |-> TRUE]
    ELSE e

\* what openh264's encode can answer: a fresh codec given a buffer of the
\* right size encodes (tests::test_encode_frame); otherwise it may fail, and
\* a frame that is not forced intra may come out empty (a skipped P frame)
LibOutcomes(e) ==
    IF e.fresh THEN {"ok"}
    ELSE IF e.intra_pending \/ is_keyframe(e) THEN {"ok", "err"}
    ELSE {"ok", "empty", "err"}

\* H264Encoder::encode_bgra: the encoder afterwards, the result ("intra",
\* "inter", "empty" for Ok, "err" for Err) and the encoder as it was at the
\* point where the call ended or the frame was encoded; sized: the call got
\* past the size check of the buffer.
\* created: Encoder::with_api_config succeeded; len_ok: bgra_data.len() is
\* width * height * 4; lib: the answer of encoder.encode
encode_bgra(e, width, height, len_ok, created, lib) ==
    LET e1 == Resized(e, width, height)
        forced == e1.intra_pending \/ is_keyframe(e1)
    IN IF e1 # e /\ ~created THEN
           [enc |-> e, res |-> "err", at |-> e, sized |-> FALSE]
       ELSE IF ~len_ok THEN
           [enc |-> e1, res |-> "err", at |-> e1, sized |-> FALSE]
       ELSE IF lib = "err" THEN
           [enc |-> [e1 EXCEPT !.intra_pending = forced], res |-> "err", at |-> e1,
            sized |-> TRUE]
       ELSE
           [enc |-> [e1 EXCEPT !.frame_count = @ + 1, !.intra_pending = FALSE,
                                !.fresh = FALSE],
            res |-> IF forced THEN "intra" ELSE IF lib = "empty" THEN "empty" ELSE "inter",
            at |-> e1, sized |-> TRUE]

\* the record of a call and the run of frames without a forced intra frame
Called(r) ==
    /\ last' = [res |-> r.res, fc |-> r.at.frame_count, kf |-> r.at.intra_pending,
                first |-> r.at.fresh, len_ok |-> r.sized]
    /\ run' = IF r.res = "intra" THEN 0
              ELSE IF r.res \in {"inter", "empty"} THEN run + 1
              ELSE run

\* ------------------------------ capture_loop in video mode (webrtc_screen.rs)
\* encode_frame_auto -> encode_frame_h264: the global encoder is created if
\* absent, FORCE_KEYFRAME is swapped to false, the frame is encoded
VEncodeFrame(width, height, len_ok, created, lib) ==
    /\ enc_user = "capture_loop"
    /\ loop_pc = "encode"
    /\ IF ~encoder.exists /\ ~created THEN
           \* H264Encoder::new failed: return None
           /\ packets' = "none"
           /\ UNCHANGED <<encoder, FORCE_KEYFRAME, last, run>>
       ELSE
           LET e0 == IF encoder.exists THEN encoder ELSE H264Encoder_new(width, height)
               e1 == IF FORCE_KEYFRAME THEN force_keyframe(e0) ELSE e0
               r  == encode_bgra(e1, width, height, len_ok, created, lib)
           IN /\ lib \in LibOutcomes(Resized(e1, width, height))
              /\ r.enc.frame_count <= MaxEncFrames
              /\ FORCE_KEYFRAME' = FALSE
              /\ encoder' = r.enc
              /\ packets' = IF r.res \in {"intra", "inter"} THEN r.res ELSE "none"
              /\ Called(r)
    /\ loop_pc' = "check"
    /\ UNCHANGED <<enc_user, dc_state, first_sent>>
    /\ UNCHANGED <<vars, pktVars, stillVars, regionVars, connVars, mouse, bc, dev, ap, cap>>

\* `if dc_state == RTCDataChannelState::Open`: the packets are sent
VCheckSend ==
    /\ enc_user = "capture_loop"
    /\ loop_pc = "check"
    /\ first_sent' = IF dc_state = "open" /\ packets # "none" /\ first_sent = "none"
                     THEN packets ELSE first_sent
    /\ packets' = "none"
    /\ loop_pc' = "encode"
    /\ UNCHANGED <<enc_user, encoder, FORCE_KEYFRAME, dc_state, last, run>>
    /\ UNCHANGED <<vars, pktVars, stillVars, regionVars, connVars, mouse, bc, dev, ap, cap>>

\* the data channel opens and on_open runs request_keyframe()
VDataChannelOpen ==
    /\ enc_user = "capture_loop"
    /\ dc_state = "connecting"
    /\ dc_state' = "open"
    /\ FORCE_KEYFRAME' = TRUE
    /\ UNCHANGED <<enc_user, encoder, loop_pc, packets, first_sent, last, run>>
    /\ UNCHANGED <<vars, pktVars, stillVars, regionVars, connVars, mouse, bc, dev, ap, cap>>

\* ------------------- the WebSocket capture thread's encoder (screen_capture.rs)
\* ((w as u32) / 2) * 2, at least 2
WsEven(x) ==
    LET a == (x \div 2) * 2
    IN IF a > 2 THEN a ELSE 2

\* request_ws_keyframe
request_ws_keyframe ==
    /\ enc_user = "ws_thread"
    /\ ~FORCE_KEYFRAME
    /\ FORCE_KEYFRAME' = TRUE
    /\ UNCHANGED <<enc_user, encoder, dc_state, loop_pc, packets, first_sent, last, run>>
    /\ UNCHANGED <<vars, pktVars, stillVars, regionVars, connVars, mouse, bc, dev, ap, cap>>

\* one pass of the inner loop: the encoder is (re)created when absent or when
\* the frame size changed, WS_FORCE_KEYFRAME is swapped, the frame is encoded
WsEncodeFrame(width, height, created, lib) ==
    /\ enc_user = "ws_thread"
    /\ LET w == WsEven(width)
           h == WsEven(height)
           renew == ~encoder.exists \/ <<encoder.width, encoder.height>> # <<w, h>>
       IN IF renew /\ ~created THEN
              /\ encoder' = NoEncoder
              /\ UNCHANGED <<FORCE_KEYFRAME, last, run>>
          ELSE
              LET e0 == IF renew THEN H264Encoder_new(w, h) ELSE encoder
                  e1 == IF FORCE_KEYFRAME THEN force_keyframe(e0) ELSE e0
                  r  == encode_bgra(e1, w, h, TRUE, created, lib)
              IN /\ lib \in LibOutcomes(e1)
                 /\ r.enc.frame_count <= MaxEncFrames
                 /\ FORCE_KEYFRAME' = FALSE
                 /\ encoder' = r.enc
                 /\ Called(r)
    /\ UNCHANGED <<enc_user, dc_state, loop_pc, packets, first_sent>>
    /\ UNCHANGED <<vars, pktVars, stillVars, regionVars, connVars, mouse, bc, dev, ap, cap>>

VideoInit ==
    /\ HostInit
    /\ enc_user \in {"capture_loop", "ws_thread"}
    /\ EncStart
    /\ PktStart
    /\ StillStart
    /\ RegionStart
    /\ ConnStart
    /\ MouseStart
    /\ BcStart
    /\ DevStart
    /\ ApStart
    /\ CapStart

VideoNext ==
    \/ \E width \in Dims, height \in Dims, len_ok \in BOOLEAN, created \in BOOLEAN,
          lib \in {"ok", "empty", "err"} :
           VEncodeFrame(width, height, len_ok, created, lib)
    \/ VCheckSend
    \/ VDataChannelOpen
    \/ request_ws_keyframe
    \/ \E width \in Dims, height \in Dims, created \in BOOLEAN,
          lib \in {"ok", "empty", "err"} :
           WsEncodeFrame(width, height, created, lib)

VideoSpec == VideoInit /\ [][VideoNext]_encVars

\* ----------------------------------- packets (webrtc_screen.rs, 576-715)
Min(a, b) == IF a < b THEN a ELSE b

\* `x as u8`
AsU8(x) == x % 256

\* frame_id.to_be_bytes() of a u16
to_be_bytes(x) == <<x \div 256, x % 256>>

\* u16::from_be_bytes
from_be_bytes(b) == b[1] * 256 + b[2]

\* a variant of chunks that leaves room for the header in every slice but
\* steps by the full size
chunks_Short(len, size) ==
    [i \in 1..((len + size - 1) \div size) |->
        [lo |-> (i - 1) * size, hi |-> Min((i - 1) * size + size - 5, len)]]

\* data.chunks(size): the slices of a buffer of len bytes
chunks(len, size) ==
    [i \in 1..((len + size - 1) \div size) |->
        [lo |-> (i - 1) * size, hi |-> Min(i * size, len)]]

\* a packet: its header fields and the slice of the encoded frame it carries
Packet(tag, index, total, frame_id, lo, hi) ==
    [tag |-> tag, index |-> index, total |-> total, frame_id |-> frame_id,
     lo |-> lo, hi |-> hi]

\* packet.len(): 0x00 and 0x01 packets have a one-byte header, 0x02 packets
\* [0x02, index, total, frame_id (2 bytes)]
PacketLen(p) == (IF p.tag = 2 THEN 5 ELSE 1) + (p.hi - p.lo)

\* encode_frame_h264 from the encoded bitstream on: no packet for an empty
\* frame, one 0x01 packet up to max_packet_size, 0x02 fragments beyond
encode_frame_h264(len, frame_count) ==
    IF len = 0 THEN <<>>
    ELSE IF len <= max_packet_size THEN <<Packet(1, 0, 0, <<0, 0>>, 0, len)>>
    ELSE
        LET frame_id == frame_count % 65536
            total_fragments == AsU8((len + max_packet_size - 1) \div max_packet_size)
            cs == chunks(len, max_packet_size)
        IN [i \in 1..Len(cs) |->
               Packet(2, AsU8(i - 1), total_fragments, to_be_bytes(frame_id),
                      cs[i].lo, cs[i].hi)]

\* encode_frame_auto in Jpeg mode: [0x00] + the JPEG that encode_frame returned
encode_frame_jpeg(len) == <<Packet(0, 0, 0, <<0, 0>>, 0, len)>>

\* lengths of the bitstream that need n packets: the shortest and the longest
LensOf(n) == {(n - 1) * max_packet_size + 1, n * max_packet_size}
H264Lens == {0} \cup UNION {LensOf(n) : n \in (1..MaxFragments) \cup {WideFragments}}

\* encode_frame returns a JPEG of at most max_size bytes
JpegLens == {1, max_packet_size - 1, max_packet_size, max_size}

\* frame_count of capture_loop, a u64, around the width of frame_id
FrameCounts == {0, 1, 65535, 65536}

\* set_encoding_mode
set_encoding_mode(mode) ==
    /\ pk_mode # mode
    /\ pk_mode' = mode
    /\ UNCHANGED <<pk_pc, pk_len, pk_fc, pk_packets, pk_next>>
    /\ UNCHANGED <<vars, encVars, stillVars, regionVars, connVars, mouse, bc, dev, ap, cap>>

\* capture_loop calls encode_frame_auto on a grabbed frame, Jpeg mode
PEncodeJpeg(len) ==
    /\ pk_pc = "idle"
    /\ pk_mode = "jpeg"
    /\ pk_len' = len
    /\ pk_fc' = 0
    /\ pk_packets' = encode_frame_jpeg(len)
    /\ pk_next' = 0
    /\ pk_pc' = "send"
    /\ UNCHANGED pk_mode
    /\ UNCHANGED <<vars, encVars, stillVars, regionVars, connVars, mouse, bc, dev, ap, cap>>

\* capture_loop calls encode_frame_auto on a grabbed frame, H264 mode
PEncodeH264(len, frame_count) ==
    /\ pk_pc = "idle"
    /\ pk_mode = "h264"
    /\ pk_len' = len
    /\ pk_fc' = frame_count
    /\ pk_packets' = encode_frame_h264(len, frame_count)
    /\ pk_next' = 0
    /\ pk_pc' = "send"
    /\ UNCHANGED pk_mode
    /\ UNCHANGED <<vars, encVars, stillVars, regionVars, connVars, mouse, bc, dev, ap, cap>>

\* `dc.send(&data).await` returns Ok: the next packet is on the channel
PSend ==
    /\ pk_pc = "send"
    /\ pk_next < Len(pk_packets)
    /\ pk_next' = pk_next + 1
    /\ UNCHANGED <<pk_mode, pk_pc, pk_len, pk_fc, pk_packets>>
    /\ UNCHANGED <<vars, encVars, stillVars, regionVars, connVars, mouse, bc, dev, ap, cap>>

\* `dc.send(&data).await` returns Err: break, the packets are dropped
PSendError ==
    /\ pk_pc = "send"
    /\ pk_next < Len(pk_packets)
    /\ pk_pc' = "idle"
    /\ pk_len' = 0 /\ pk_fc' = 0 /\ pk_packets' = <<>> /\ pk_next' = 0
    /\ UNCHANGED pk_mode
    /\ UNCHANGED <<vars, encVars, stillVars, regionVars, connVars, mouse, bc, dev, ap, cap>>

\* the loop over the packets ends, the packets are dropped
PSendDone ==
    /\ pk_pc = "send"
    /\ pk_next = Len(pk_packets)
    /\ pk_pc' = "idle"
    /\ pk_len' = 0 /\ pk_fc' = 0 /\ pk_packets' = <<>> /\ pk_next' = 0
    /\ UNCHANGED pk_mode
    /\ UNCHANGED <<vars, encVars, stillVars, regionVars, connVars, mouse, bc, dev, ap, cap>>

PacketInit ==
    /\ HostInit
    /\ enc_user = "none"
    /\ EncStart
    /\ PktStart
    /\ StillStart
    /\ RegionStart
    /\ ConnStart
    /\ MouseStart
    /\ BcStart
    /\ DevStart
    /\ ApStart
    /\ CapStart

PacketNext ==
    \/ \E mode \in {"jpeg", "h264"} : set_encoding_mode(mode)
    \/ \E len \in JpegLens : PEncodeJpeg(len)
    \/ \E len \in H264Lens, frame_count \in FrameCounts : PEncodeH264(len, frame_count)
    \/ PSend
    \/ PSendError
    \/ PSendDone

PacketSpec == PacketInit /\ [][PacketNext]_pktVars

\* ------------------------- encode_frame: scale and quality (webrtc_screen.rs)
\* a variant of the selection with the thresholds excluded from their bands
select_scale_Strict(pixel_count) ==
    IF pixel_count < 150000 THEN <<1, 80>>
    ELSE IF pixel_count < 300000 THEN <<1, 65>>
    ELSE IF pixel_count < 600000 THEN <<2, 70>>
    ELSE <<2, 65>>

\* let (scale, start_quality) = if pixel_count <= 150000 { .. } else ..
select_scale(pixel_count) ==
    IF pixel_count <= 150000 THEN <<1, 80>>
    ELSE IF pixel_count <= 300000 THEN <<1, 65>>
    ELSE IF pixel_count <= 600000 THEN <<2, 70>>
    ELSE <<2, 65>>

\* crop sizes around the thresholds, as one row and as windows
Deltas == (0 - MaxDelta)..MaxDelta
CropWidths == {400, 600, 800} \cup {t + d : t \in {150000, 300000, 600000}, d \in Deltas}
CropHeights == {1, 2, 375, 500, 600, 750}

\* a.saturating_sub(b)
saturating_sub(a, b) == IF a > b THEN a - b ELSE 0

\* sizes of jpeg_data the image encoder may produce: within the limit, over it
JpegSizes == {max_size, max_size + 1}

\* mutation: an oversize output is never given up
QualityDecision_NoFloor(ok, len, quality) ==
    IF ~ok THEN "None"
    ELSE IF len <= max_size THEN "Some"
    ELSE "again"

\* one pass of the loop body: return Some(jpeg_data), return None, or lower
\* the quality and go round again
QualityDecision(ok, len, quality) ==
    IF ~ok THEN "None"
    ELSE IF len <= max_size THEN "Some"
    ELSE IF quality <= 10 THEN "None"
    ELSE "again"

\* encode_frame from the cropped image on: pixel_count, the selection,
\* new_width = crop_w / scale, new_height = crop_h / scale, and the entry of
\* the quality loop with quality = start_quality
StillEncodeFrame(crop_w, crop_h) ==
    /\ st_q.pc # "loop"
    /\ st_q' = [pc |-> "loop", quality |-> select_scale(crop_w * crop_h)[2],
                len |-> 0, ok |-> TRUE]
    /\ <<crop_w, crop_h>> # st_crop
    /\ st_crop' = <<crop_w, crop_h>>
    /\ st_sel' = select_scale(crop_w * crop_h)
    /\ st_new' = <<crop_w \div select_scale(crop_w * crop_h)[1],
                   crop_h \div select_scale(crop_w * crop_h)[1]>>
    /\ UNCHANGED <<vars, encVars, pktVars, regionVars, connVars, mouse, bc, dev, ap, cap>>

StillInit ==
    /\ HostInit
    /\ enc_user = "none"
    /\ EncStart
    /\ PktStart
    /\ StillStart
    /\ RegionStart
    /\ ConnStart
    /\ MouseStart
    /\ BcStart
    /\ DevStart
    /\ ApStart
    /\ CapStart

\* one round of the loop: write_with_encoder at `quality` gives ok and a
\* jpeg_data of len bytes
StillQualityPass(ok, len) ==
    /\ st_q.pc = "loop"
    /\ LET d == QualityDecision(ok, len, st_q.quality)
       IN st_q' = [pc |-> IF d = "again" THEN "loop" ELSE d,
                   quality |-> IF d = "again" THEN saturating_sub(st_q.quality, 5)
                               ELSE st_q.quality,
                   len |-> len, ok |-> ok]
    /\ UNCHANGED <<st_crop, st_sel, st_new>>
    /\ UNCHANGED <<vars, encVars, pktVars, regionVars, connVars, mouse, bc, dev, ap, cap>>

StillLoop == \E ok \in BOOLEAN, len \in JpegSizes : StillQualityPass(ok, len)

StillNext ==
    \/ \E crop_w \in CropWidths, crop_h \in CropHeights : StillEncodeFrame(crop_w, crop_h)
    \/ StillLoop

StillSpec == StillInit /\ [][StillNext]_stillVars

\* the loop is straight-line code around a call that returns: a round that
\* has begun is completed
StillFairSpec == StillSpec /\ WF_stillVars(StillLoop)

\* ------------------------------- the capture region (lib.rs 515-544) and the
\* crops by it (webrtc_screen.rs 417-438, screen_capture.rs 139-159)
\* 2^64 of the 64-bit usize; every coordinate of the model lies far below it
UsizeWrap == 2^30

\* `v as usize` of an i32: a negative value wraps to the top of the range
AsUsize(v) == IF v < 0 THEN UsizeWrap + v ELSE v

\* `v as u32` of an f32: a negative value saturates to 0
F32AsU32(v) == IF v < 0 THEN 0 ELSE v

\* the screen, in pixels of the captured frame
ScreenW == MaxCoord
ScreenH == MaxCoord
FullRect == <<0, 0, ScreenW, ScreenH>>

\* the crop of encode_frame and of encode_frame_auto: <<>> when the frame is
\* dropped (`return None` on crop_w == 0 || crop_h == 0)
DcCrop(region, width, height) ==
    IF ~region.some THEN <<0, 0, width, height>>
    ELSE LET x == Min(AsUsize(region.x), saturating_sub(width, 1))
             y == Min(AsUsize(region.y), saturating_sub(height, 1))
             w == Min(AsUsize(region.width), saturating_sub(width, x))
             h == Min(AsUsize(region.height), saturating_sub(height, y))
         IN IF w = 0 \/ h = 0 THEN <<>> ELSE <<x, y, w, h>>

\* the crop of the WebSocket capture thread: the region scaled to native
\* pixels and clamped, the whole image when the clamped size is empty
WsCrop(region, cap_width, cap_height, scale_factor) ==
    IF ~region.some THEN <<0, 0, cap_width, cap_height>>
    ELSE LET crop_x == Min(F32AsU32(region.x * scale_factor), cap_width)
             crop_y == Min(F32AsU32(region.y * scale_factor), cap_height)
             crop_w == Min(F32AsU32(region.width * scale_factor), cap_width - crop_x)
             crop_h == Min(F32AsU32(region.height * scale_factor), cap_height - crop_y)
         IN IF crop_w > 0 /\ crop_h > 0 THEN <<crop_x, crop_y, crop_w, crop_h>>
            ELSE <<0, 0, cap_width, cap_height>>

\* arguments of set_capture_region and set_viewport
RegionXs == (0 - 1)..(MaxCoord + 1)
RegionYs == {0, MaxCoord}
RegionWs == (0 - 1)..MaxCoord
RegionHs == {0, 1}
Viewports ==
    [viewport_x : {0, 1}, viewport_y : {0}, viewport_width : {1},
     viewport_height : {1}, quality_mode : {"high", "low"}]

\* Some(CaptureRegion { x, y, width, height, viewport_x: 0, viewport_y: 0,
\* viewport_width: width, viewport_height: height, quality_mode: "high" })
NewRegion(x, y, width, height) ==
    [some |-> TRUE, x |-> x, y |-> y, width |-> width, height |-> height,
     viewport_x |-> 0, viewport_y |-> 0, viewport_width |-> width,
     viewport_height |-> height, quality_mode |-> "high"]

\* a variant of set_viewport that moves the viewport by the given offset
ApplyViewport_Relative(region, v) ==
    IF region.some
    THEN [region EXCEPT !.viewport_x = @ + v.viewport_x,
                        !.viewport_y = @ + v.viewport_y,
                        !.viewport_width = v.viewport_width,
                        !.viewport_height = v.viewport_height,
                        !.quality_mode = v.quality_mode]
    ELSE region

\* a variant of set_viewport that also moves the crop to the viewport
ApplyViewport_MovesCrop(region, v) ==
    IF region.some
    THEN [region EXCEPT !.x = v.viewport_x, !.y = v.viewport_y,
                        !.viewport_x = v.viewport_x,
                        !.viewport_y = v.viewport_y,
                        !.viewport_width = v.viewport_width,
                        !.viewport_height = v.viewport_height,
                        !.quality_mode = v.quality_mode]
    ELSE region

\* `if let Some(ref mut r) = *region { r.viewport_x = viewport_x; ... }`
ApplyViewport(region, v) ==
    IF region.some
    THEN [region EXCEPT !.viewport_x = v.viewport_x,
                        !.viewport_y = v.viewport_y,
                        !.viewport_width = v.viewport_width,
                        !.viewport_height = v.viewport_height,
                        !.quality_mode = v.quality_mode]
    ELSE region

\* a variant of reset_capture_region that only resets the viewport
ApplyReset_ViewportOnly(region) ==
    IF region.some
    THEN [region EXCEPT !.viewport_x = 0, !.viewport_y = 0]
    ELSE region

\* *state.capture_region.write() = None
ApplyReset(region) == NoRegion

\* the message is read: every arm is `if authenticated`
RegionMsg(m, since) ==
    /\ rg_n < MaxRegionMsgs
    /\ rg_n' = rg_n + 1
    /\ rg_last' = [m EXCEPT !.twice = (m.kind = rg_last.kind /\ m.arg = rg_last.arg)]
    /\ rg_since' = IF rg_auth THEN since ELSE rg_since
    /\ UNCHANGED <<rg_auth, rg_frame>>
    /\ UNCHANGED <<vars, encVars, pktVars, stillVars, connVars, mouse, bc, dev, ap, cap>>

\* WsMessage::SetCaptureRegion
SetCaptureRegion(x, y, width, height) ==
    /\ capture_region' = IF rg_auth THEN NewRegion(x, y, width, height)
                         ELSE capture_region
    /\ RegionMsg([kind |-> "set", arg |-> <<x, y, width, height>>, twice |-> FALSE], "set")

\* WsMessage::SetViewport
SetViewport(v) ==
    /\ capture_region' = IF rg_auth THEN ApplyViewport(capture_region, v)
                         ELSE capture_region
    /\ RegionMsg([kind |-> "viewport", arg |-> v, twice |-> FALSE],
                 IF rg_since \in {"set", "set_viewport"} THEN "set_viewport"
                 ELSE rg_since)

\* WsMessage::ResetCaptureRegion
ResetCaptureRegion ==
    /\ capture_region' = IF rg_auth THEN ApplyReset(capture_region)
                         ELSE capture_region
    /\ RegionMsg([kind |-> "reset", arg |-> <<>>, twice |-> FALSE],
                 IF rg_since = "set_viewport" THEN "set_viewport_reset"
                 ELSE IF rg_since = "set" THEN "set_reset"
                 ELSE rg_since)

\* capture_loop encodes a frame: encode_frame_auto crops by the region
DcCaptureFrame ==
    /\ rg_frame' = [path |-> "dc", rect |-> DcCrop(capture_region, ScreenW, ScreenH),
                    tick |-> ~rg_frame.tick]
    /\ UNCHANGED <<capture_region, rg_auth, rg_last, rg_since, rg_n>>
    /\ UNCHANGED <<vars, encVars, pktVars, stillVars, connVars, mouse, bc, dev, ap, cap>>

\* the WebSocket capture thread captures an image and crops it by the region
WsCaptureCrop(scale_factor) ==
    /\ rg_frame' = [path |-> <<"ws", scale_factor>>,
                    rect |-> WsCrop(capture_region, ScreenW, ScreenH, scale_factor),
                    tick |-> ~rg_frame.tick]
    /\ UNCHANGED <<capture_region, rg_auth, rg_last, rg_since, rg_n>>
    /\ UNCHANGED <<vars, encVars, pktVars, stillVars, connVars, mouse, bc, dev, ap, cap>>

RegionInit ==
    /\ HostInit
    /\ enc_user = "none"
    /\ EncStart
    /\ PktStart
    /\ StillStart
    /\ capture_region = NoRegion
    /\ rg_auth \in BOOLEAN
    /\ rg_last = NoRegionMsg
    /\ rg_since = "none"
    /\ rg_n = 0
    /\ rg_frame = NoFrame
    /\ ConnStart
    /\ MouseStart
    /\ BcStart
    /\ DevStart
    /\ ApStart
    /\ CapStart

RegionNext ==
    \/ \E x \in RegionXs, y \in RegionYs, width \in RegionWs, height \in RegionHs :
           SetCaptureRegion(x, y, width, height)
    \/ \E v \in Viewports : SetViewport(v)
    \/ ResetCaptureRegion
    \/ DcCaptureFrame
    \/ \E scale_factor \in {1, 2} : WsCaptureCrop(scale_factor)

RegionSpec == RegionInit /\ [][RegionNext]_regionVars

\* --------------------- handle_connection with its unread messages (lib.rs)
\* the state of the session as the protocol sees it when a message arrives
Phase ==
    IF cn_authenticated THEN "authenticated"
    ELSE IF cn_pc = "await_approval" \/ \E k \in 1..Len(cn_inbox) : cn_inbox[k].type = "auth"
    THEN "pending"
    ELSE "idle"

\* control messages: one that changes session state, two that call the OS
\* and answer with a result, and the one that creates the data-channel session
ControlTypes == {"start_screen_share", "focus_app", "activate_tab", "start_webrtc"}

\* the result message built after the spawn_blocking call has returned: its
\* value is dropped (`.await.ok()`) and success is the literal true
ResultFor(type, os_ok) ==
    IF type = "focus_app" THEN [type |-> "focus_result", success |-> TRUE]
    ELSE [type |-> "activate_tab_result", success |-> TRUE]

\* the client sends a message: auth with the valid token, not external, or a
\* control message
ClientSend(type) ==
    /\ cn_peer = "open"
    /\ cn_sent < MaxInbox
    /\ cn_sent' = cn_sent + 1
    /\ cn_inbox' = Append(cn_inbox, [type |-> type, at |-> Phase])
    /\ UNCHANGED <<cn_pc, cn_authenticated, cn_peer, cn_chan, cn_pending, cn_honored,
                   cn_replies, cn_webrtc_session, cn_constructed>>
    /\ UNCHANGED <<vars, encVars, pktVars, stillVars, regionVars, mouse, bc, dev, ap, cap>>

\* the client closes the connection: the end of the stream follows what it sent
ClientClose ==
    /\ cn_peer = "open"
    /\ cn_peer' = "closed"
    /\ cn_inbox' = Append(cn_inbox, [type |-> "close", at |-> Phase])
    /\ UNCHANGED <<cn_pc, cn_authenticated, cn_sent, cn_chan, cn_pending, cn_honored,
                   cn_replies, cn_webrtc_session, cn_constructed>>
    /\ UNCHANGED <<vars, encVars, pktVars, stillVars, regionVars, mouse, bc, dev, ap, cap>>

\* `msg = read.next()` and the match on it: Auth creates the request and
\* waits inside the arm; every other arm is `if authenticated`; Close, an
\* error or the end of the stream leaves the loop. os_ok is what the OS
\* call of a FocusApp or ActivateTab arm returns, created whether
\* WebRTCScreenShare::new of the StartWebRTC arm succeeds (what that arm does
\* to the capture thread and the capture region is in StartWebRTC above)
ConnRead(os_ok, created) ==
    /\ cn_pc = "select"
    /\ Len(cn_inbox) > 0
    /\ cn_inbox' = Tail(cn_inbox)
    /\ LET m == Head(cn_inbox)
       IN CASE m.type = "auth" ->
                 /\ cn_pc' = "await_approval"
                 /\ cn_chan' = "empty"
                 /\ cn_pending' = TRUE
                 /\ UNCHANGED <<cn_authenticated, cn_honored, cn_replies,
                                cn_webrtc_session, cn_constructed>>
            [] m.type = "close" ->
                 /\ cn_pc' = "closed"
                 /\ UNCHANGED <<cn_authenticated, cn_chan, cn_pending, cn_honored,
                                cn_replies, cn_webrtc_session, cn_constructed>>
            [] OTHER ->
                 /\ cn_honored' = IF cn_authenticated THEN cn_honored \cup {m}
                                  ELSE cn_honored
                 /\ cn_replies' =
                        IF cn_authenticated /\ m.type \in {"focus_app", "activate_tab"}
                        THEN cn_replies \cup {[call |-> os_ok,
                                               sent |-> ResultFor(m.type, os_ok)]}
                        ELSE cn_replies
                 /\ IF cn_authenticated /\ m.type = "start_webrtc" /\ created THEN
                        /\ cn_constructed' = cn_constructed + 1
                        /\ cn_webrtc_session' = cn_constructed + 1
                    ELSE UNCHANGED <<cn_webrtc_session, cn_constructed>>
                 /\ UNCHANGED <<cn_pc, cn_authenticated, cn_chan, cn_pending>>
    /\ UNCHANGED <<cn_sent, cn_peer>>
    /\ UNCHANGED <<vars, encVars, pktVars, stillVars, regionVars, mouse, bc, dev, ap, cap>>

\* respond_to_connection on the pending request
ConnRespond(user_approved) ==
    /\ cn_pending
    /\ cn_chan = "empty"
    /\ cn_pending' = FALSE
    /\ cn_chan' = IF user_approved THEN "true" ELSE "false"
    /\ UNCHANGED <<cn_pc, cn_authenticated, cn_inbox, cn_sent, cn_peer, cn_honored,
                   cn_replies, cn_webrtc_session, cn_constructed>>
    /\ UNCHANGED <<vars, encVars, pktVars, stillVars, regionVars, mouse, bc, dev, ap, cap>>

\* the 30 s of tokio::time::timeout pass
ConnTimeout ==
    /\ cn_pc = "await_approval"
    /\ cn_chan = "empty"
    /\ cn_chan' = "timeout"
    /\ UNCHANGED <<cn_pc, cn_authenticated, cn_inbox, cn_sent, cn_peer, cn_pending,
                   cn_honored, cn_replies, cn_webrtc_session, cn_constructed>>
    /\ UNCHANGED <<vars, encVars, pktVars, stillVars, regionVars, mouse, bc, dev, ap, cap>>

\* the wait returns: the request is removed from both lists, the session is
\* authenticated on an approval
ConnApprovalFinish ==
    /\ cn_pc = "await_approval"
    /\ cn_chan \in {"true", "false", "timeout"}
    /\ cn_pending' = FALSE
    /\ cn_authenticated' = (cn_authenticated \/ cn_chan = "true")
    /\ cn_pc' = "select"
    /\ UNCHANGED <<cn_inbox, cn_sent, cn_peer, cn_chan, cn_honored, cn_replies,
                   cn_webrtc_session, cn_constructed>>
    /\ UNCHANGED <<vars, encVars, pktVars, stillVars, regionVars, mouse, bc, dev, ap, cap>>

ConnInit ==
    /\ HostInit
    /\ enc_user = "none"
    /\ EncStart
    /\ PktStart
    /\ StillStart
    /\ RegionStart
    /\ ConnStart
    /\ MouseStart
    /\ BcStart
    /\ DevStart
    /\ ApStart
    /\ CapStart

ConnNext ==
    \/ \E type \in {"auth"} \cup ControlTypes : ClientSend(type)
    \/ ClientClose
    \/ \E os_ok \in BOOLEAN, created \in BOOLEAN : ConnRead(os_ok, created)
    \/ \E user_approved \in BOOLEAN : ConnRespond(user_approved)
    \/ ConnTimeout
    \/ ConnApprovalFinish

ConnSpec == ConnInit /\ [][ConnNext]_connVars

\* ----------------------- handle_connection: the mouse_interval branch (lib.rs)
\* what get_mouse_position returns: a cursor position, or None
NoPosition == <<>>
Positions == {<<0 - 1, 0 - 1>>, <<0, 0>>, <<1, 0>>, <<0, 1>>}

\* mutation: the position is sent at every tick
MouseChanged_Always(pos, last_pos) == TRUE

\* `if (x, y) != last_mouse_pos`
MouseChanged(pos, last_pos) == pos # last_pos

\* the session is authenticated (an approved or external auth)
MouseAuth ==
    /\ ~mouse.authenticated
    /\ mouse' = [mouse EXCEPT !.authenticated = TRUE]
    /\ UNCHANGED <<vars, encVars, pktVars, stillVars, regionVars, connVars, bc, dev, ap, cap>>

\* WsMessage::StartScreenShare if authenticated
MouseStartScreenShare ==
    /\ mouse.authenticated
    /\ ~mouse.screen_sharing
    /\ mouse' = [mouse EXCEPT !.screen_sharing = TRUE]
    /\ UNCHANGED <<vars, encVars, pktVars, stillVars, regionVars, connVars, bc, dev, ap, cap>>

\* WsMessage::StopScreenShare if authenticated
MouseStopScreenShare ==
    /\ mouse.authenticated
    /\ mouse.screen_sharing
    /\ mouse' = [mouse EXCEPT !.screen_sharing = FALSE]
    /\ UNCHANGED <<vars, encVars, pktVars, stillVars, regionVars, connVars, bc, dev, ap, cap>>

\* `_ = mouse_interval.tick(), if screen_sharing && authenticated`
MouseTick(pos) ==
    /\ mouse.screen_sharing /\ mouse.authenticated
    /\ Len(mouse.out) < MaxMouseMsgs
    /\ mouse' = IF pos # NoPosition /\ MouseChanged(pos, mouse.last_mouse_pos)
                THEN [mouse EXCEPT !.last_mouse_pos = pos, !.out = Append(@, pos)]
                ELSE mouse
    /\ UNCHANGED <<vars, encVars, pktVars, stillVars, regionVars, connVars, bc, dev, ap, cap>>

MouseInit ==
    /\ HostInit
    /\ enc_user = "none"
    /\ EncStart
    /\ PktStart
    /\ StillStart
    /\ RegionStart
    /\ ConnStart
    /\ MouseStart
    /\ BcStart
    /\ DevStart
    /\ ApStart
    /\ CapStart

MouseNext ==
    \/ MouseAuth
    \/ MouseStartScreenShare
    \/ MouseStopScreenShare
    \/ \E pos \in Positions \cup {NoPosition} : MouseTick(pos)

MouseSpec == MouseInit /\ [][MouseNext]_mouse

\* ------------------ the frame broadcast (tokio::sync::broadcast, capacity 2)
\* frames are numbered 1, 2, ... in the order the capture thread sends them;
\* bc.rx is the number of the next frame the receiver reads, 0 for None

\* mutation: a full channel keeps every frame
PushFrame_KeepAll(buf, f) == Append(buf, f)

\* Sender::send: the frame is stored; a full channel gives up its oldest one
PushFrame(buf, f) ==
    IF Len(buf) < BroadcastCapacity THEN Append(buf, f)
    ELSE Append(Tail(buf), f)

\* WsMessage::StartScreenShare: frame_tx.subscribe() sees the frames sent
\* from now on
BcSubscribe ==
    /\ bc.open
    /\ bc' = [bc EXCEPT !.rx = bc.tail + 1]
    /\ UNCHANGED <<vars, encVars, pktVars, stillVars, regionVars, connVars, mouse, dev, ap, cap>>

\* WsMessage::StopScreenShare: frame_rx = None
BcUnsubscribe ==
    /\ bc.open
    /\ bc.rx # 0
    /\ bc' = [bc EXCEPT !.rx = 0]
    /\ UNCHANGED <<vars, encVars, pktVars, stillVars, regionVars, connVars, mouse, dev, ap, cap>>

\* the capture thread has a frame: `if receivers > 0 { tx.send(h264_data) }`
BcSend ==
    /\ bc.tail < MaxBcFrames
    /\ bc' = IF bc.rx # 0
             THEN [bc EXCEPT !.tail = @ + 1, !.buf = PushFrame(@, bc.tail + 1)]
             ELSE bc
    /\ UNCHANGED <<vars, encVars, pktVars, stillVars, regionVars, connVars, mouse, dev, ap, cap>>

\* the select! branch `rx.recv().await.ok()`: a receiver that fell behind
\* gets Err(Lagged), which `.ok()` turns into None, and stands at the oldest
\* frame kept; otherwise the frame is written as Message::Binary, and a
\* failed write breaks out of the loop
BcRecv(sent) ==
    /\ bc.open
    /\ bc.rx # 0
    /\ bc.rx <= bc.tail
    /\ IF bc.rx < Head(bc.buf) THEN
           \* nothing is written on this turn
           /\ sent
           /\ bc' = [bc EXCEPT !.rx = Head(bc.buf), !.lagged = Head(bc.buf) - bc.rx]
       ELSE IF sent THEN
           bc' = [bc EXCEPT !.rx = @ + 1, !.got = Append(@, bc.rx), !.lagged = 0]
       ELSE
           bc' = [bc EXCEPT !.open = FALSE, !.rx = 0]
    /\ UNCHANGED <<vars, encVars, pktVars, stillVars, regionVars, connVars, mouse, dev, ap, cap>>

BcInit ==
    /\ HostInit
    /\ enc_user = "none"
    /\ EncStart
    /\ PktStart
    /\ StillStart
    /\ RegionStart
    /\ ConnStart
    /\ MouseStart
    /\ BcStart
    /\ DevStart
    /\ ApStart
    /\ CapStart

BcNext ==
    \/ BcSubscribe
    \/ BcUnsubscribe
    \/ BcSend
    \/ \E sent \in BOOLEAN : BcRecv(sent)

BcSpec == BcInit /\ [][BcNext]_bc

\* ------------------------- connected_device over several connections (lib.rs)
\* the listener accepts a connection: a handle_connection task starts
DevAccept(c) ==
    /\ dev.pc[c] = "unconnected"
    /\ \A p \in Conns : p < c => dev.pc[p] # "unconnected"
    /\ dev' = [dev EXCEPT !.pc[c] = "open"]
    /\ UNCHANGED <<vars, encVars, pktVars, stillVars, regionVars, connVars, mouse, bc, ap, cap>>

\* WsMessage::Auth: accepted is whether the token is valid and the connection
\* is external or the user approves; the device name is the connection's
DevAuth(c, accepted) ==
    /\ dev.pc[c] = "open"
    /\ dev' = IF accepted
              THEN [dev EXCEPT !.authenticated[c] = TRUE, !.connected_device = c]
              ELSE dev
    /\ UNCHANGED <<vars, encVars, pktVars, stillVars, regionVars, connVars, mouse, bc, ap, cap>>

\* the connection loop is left: `*state.connected_device.write() = None`
DevClose(c) ==
    /\ dev.pc[c] = "open"
    /\ dev' = [dev EXCEPT !.pc[c] = "closed", !.authenticated[c] = FALSE,
                          !.connected_device = NoSession]
    /\ UNCHANGED <<vars, encVars, pktVars, stillVars, regionVars, connVars, mouse, bc, ap, cap>>

\* get_connection_status().connected
Connected == dev.connected_device # NoSession

DevInit ==
    /\ HostInit
    /\ enc_user = "none"
    /\ EncStart
    /\ PktStart
    /\ StillStart
    /\ RegionStart
    /\ ConnStart
    /\ MouseStart
    /\ BcStart
    /\ DevStart
    /\ ApStart
    /\ CapStart

DevNext ==
    \/ \E c \in Conns : DevAccept(c)
    \/ \E c \in Conns, accepted \in BOOLEAN : DevAuth(c, accepted)
    \/ \E c \in Conns : DevClose(c)

DevSpec == DevInit /\ [][DevNext]_dev

\* --------------------- pending_connections and pending_requests (lib.rs)
\* mutation: the newest request is put in front of the polling list
PendingPush_Front(q, r) == <<r>> \o q

\* state.pending_requests.write().push(connection_request)
PendingPush(q, r) == Append(q, r)

\* the local branch of WsMessage::Auth up to the await: a fresh request id, the
\* sender into pending_connections, the request onto pending_requests
ApAuthLocal ==
    /\ ap.next_request <= MaxApRequests
    /\ LET r == ap.next_request
       IN ap' = [ap EXCEPT !.pending_connections = @ \cup {r},
                           !.pending_requests = PendingPush(@, r),
                           !.chan[r] = "empty",
                           !.pc[r] = "waiting",
                           !.next_request = r + 1]
    /\ UNCHANGED <<vars, encVars, pktVars, stillVars, regionVars, connVars, mouse, bc, dev, cap>>

\* the await completes with the value sent, or the 30 s timer fires and the
\* receiver is dropped with the Timeout future
ApWake(r) ==
    /\ ap.pc[r] = "waiting"
    /\ ap' = [ap EXCEPT !.pc[r] = "woken",
                        !.chan[r] = IF @ = "empty" THEN "closed" ELSE @]
    /\ UNCHANGED <<vars, encVars, pktVars, stillVars, regionVars, connVars, mouse, bc, dev, cap>>

\* pending_connections.remove(&request_id); pending_requests.retain(..)
ApFinish(r) ==
    /\ ap.pc[r] = "woken"
    /\ ap' = [ap EXCEPT !.pc[r] = "done",
                        !.pending_connections = @ \ {r},
                        !.pending_requests = Retain(@, r)]
    /\ UNCHANGED <<vars, encVars, pktVars, stillVars, regionVars, connVars, mouse, bc, dev, cap>>

\* what respond_to_connection returns
ApRespondResult(r) ==
    IF r \in ap.pending_connections THEN
        IF ap.chan[r] = "empty" THEN "ok" ELSE "send_failed"
    ELSE "not_found"

\* Tauri command respond_to_connection(request_id, approved)
ApRespond(r, approve) ==
    /\ ap' = [ap EXCEPT !.pending_requests = Retain(@, r),
                        !.pending_connections = @ \ {r},
                        !.chan[r] = IF ApRespondResult(r) = "ok"
                                    THEN (IF approve THEN "true" ELSE "false")
                                    ELSE @,
                        !.ret = ApRespondResult(r)]
    /\ UNCHANGED <<vars, encVars, pktVars, stillVars, regionVars, connVars, mouse, bc, dev, cap>>

\* Tauri command get_pending_request: pending.first().cloned()
get_pending_request ==
    IF ap.pending_requests = <<>> THEN NoRequest ELSE Head(ap.pending_requests)

ApInit ==
    /\ HostInit
    /\ enc_user = "none"
    /\ EncStart
    /\ PktStart
    /\ StillStart
    /\ RegionStart
    /\ ConnStart
    /\ MouseStart
    /\ BcStart
    /\ DevStart
    /\ ApStart
    /\ CapStart

ApNext ==
    \/ ApAuthLocal
    \/ \E r \in ApIds : ApWake(r)
    \/ \E r \in ApIds : ApFinish(r)
    \/ \E r \in ApIds, approve \in BOOLEAN : ApRespond(r, approve)

ApSpec == ApInit /\ [][ApNext]_ap

\* ---------------- WebRTCScreenShare::start_capture and capture_loop, alone
\* mutation: start_capture does not look at capture_running
CapStartCapture_Always(c) ==
    [c EXCEPT !.capture_running = TRUE, !.loop = "acquiring", !.attempt = 0,
              !.frame_count = 0, !.spawns = @ + 1]

\* start_capture: `if *running { return; } *running = true;` then
\* tokio::spawn(capture_loop(..))
CapStartCapture(c) ==
    IF c.capture_running THEN c
    ELSE [c EXCEPT !.capture_running = TRUE, !.loop = "acquiring", !.attempt = 0,
                   !.frame_count = 0, !.spawns = @ + 1]

\* WsMessage::WebRTCAnswer on the connection that holds the session:
\* set_answer, and start_capture when it succeeded
CapAnswer(answer_ok) ==
    /\ ~cap.closed
    /\ cap.answers < MaxAnswers
    /\ cap' = [(IF answer_ok THEN CapStartCapture(cap) ELSE cap)
                  EXCEPT !.answers = @ + 1, !.last = "answer"]
    /\ UNCHANGED <<vars, encVars, pktVars, stillVars, regionVars, connVars, mouse, bc, dev, ap>>

\* one attempt of `for attempt in 1..=10`: Display::primary and Capturer::new;
\* after the tenth failure capture_loop returns
CapAcquire(got) ==
    /\ cap.loop = "acquiring"
    /\ cap' = [cap EXCEPT !.attempt = @ + 1,
                          !.loop = IF got THEN "running"
                                   ELSE IF cap.attempt + 1 = AcquireAttempts
                                        THEN "ended" ELSE @,
                          !.last = "acquire"]
    /\ UNCHANGED <<vars, encVars, pktVars, stillVars, regionVars, connVars, mouse, bc, dev, ap>>

\* the head of the loop reads capture_running when frame_count % 30 == 0
CapSeesStop == cap.frame_count % RunningCheckEvery = 0 /\ ~cap.capture_running

\* the loop breaks at its head
CapExit ==
    /\ cap.loop = "running"
    /\ CapSeesStop
    /\ cap' = [cap EXCEPT !.loop = "ended", !.last = "exit"]
    /\ UNCHANGED <<vars, encVars, pktVars, stillVars, regionVars, connVars, mouse, bc, dev, ap>>

\* one pass: capturer.frame(); an error other than WouldBlock ends the loop
CapFrame(grabbed) ==
    /\ cap.loop = "running"
    /\ ~CapSeesStop
    /\ IF grabbed THEN
           /\ cap.frame_count < MaxCapFrames
           /\ cap' = [cap EXCEPT !.frame_count = @ + 1, !.last = "frame"]
       ELSE cap' = [cap EXCEPT !.loop = "ended", !.last = "error"]
    /\ UNCHANGED <<vars, encVars, pktVars, stillVars, regionVars, connVars, mouse, bc, dev, ap>>

\* WebRTCScreenShare::close, called by StopWebRTC, which takes the session
\* out of webrtc_session: no start_capture follows it
CapClose ==
    /\ ~cap.closed
    /\ cap' = [cap EXCEPT !.capture_running = FALSE, !.closed = TRUE,
                          !.last = "close"]
    /\ UNCHANGED <<vars, encVars, pktVars, stillVars, regionVars, connVars, mouse, bc, dev, ap>>

CapInit ==
    /\ HostInit
    /\ enc_user = "none"
    /\ EncStart
    /\ PktStart
    /\ StillStart
    /\ RegionStart
    /\ ConnStart
    /\ MouseStart
    /\ BcStart
    /\ DevStart
    /\ ApStart
    /\ CapStart

CapNext ==
    \/ \E answer_ok \in BOOLEAN : CapAnswer(answer_ok)
    \/ \E got \in BOOLEAN : CapAcquire(got)
    \/ CapExit
    \/ \E grabbed \in BOOLEAN : CapFrame(grabbed)
    \/ CapClose

CapSpec == CapInit /\ [][CapNext]_cap

\* ---------------------------------------------------------------- claims
LastIs(q, m) == Len(q) > 0 /\ q[Len(q)] = m
Range(q) == {q[k] : k \in 1..Len(q)}
IsAuth(m) == m.type = "auth"
ValidAuth(m) == IsAuth(m) /\ m.token = AuthToken
BadAuth(m) == IsAuth(m) /\ m.token # AuthToken
\* the one-shot channel of request r carries its final value
Resolved(r) == chan[r] \in {"true", "false", "closed"}
\* session s was approved: by the user, or by presenting the token as external
UserApproved(s) == \E r \in RequestIds : req_owner[r] = s /\ chan[r] = "true"
\* session s reads an Auth message in this step and answers it at once
AnswersAuthNow(s) == pc[s] = "select" /\ msgs' # msgs /\ out'[s] # out[s]
\* a capture loop of session s is running with its data channel open
DcCanSend(s) ==
    \E i \in RtcIds : rtc[i].owner = s /\ rtc[i].loop = "running" /\ rtc[i].dc = "open"

\* C1: a binary frame is written to a session's WebSocket, and the session is
\* subscribed to the frame broadcast, only if the session is authenticated,
\* and it is authenticated only after the valid token plus the user's approval
\* or the external auto-approval.
C1_FramesOnlyWhenApproved ==
    \A s \in Sessions :
        /\ (ws_sent[s] > 0 \/ screen_sharing[s] \/ frame_rx[s] # NoRx) => authenticated[s]
        /\ authenticated[s] => (ext_ok[s] \/ UserApproved(s))

C1_Witness == \E s \in Sessions : ws_sent[s] > 0

\* C2: authenticated becomes true, and an approval request is created, only
\* while an auth message carrying auth_token is handled; an auth with another
\* token leaves authenticated as it was and creates no request.
C2_AuthOnlyByToken ==
    [][\A s \in Sessions :
          /\ (authenticated'[s] /\ ~authenticated[s]) => ValidAuth(cur'[s])
          /\ (next_request' # next_request /\ req_owner'[next_request] = s)
                => (ValidAuth(cur'[s]) /\ pc[s] = "select" /\ msgs' # msgs)
          /\ BadAuth(cur'[s])
                => /\ authenticated'[s] = authenticated[s]
                   /\ ~(next_request' # next_request /\ req_owner'[next_request] = s)]_vars

C2_Witness ==
    \E s \in Sessions : authenticated[s] /\ UserApproved(s) /\ ValidAuth(cur[s])

\* C3: once an auth with a wrong token has been answered with
\* auth_response{success:false} the connection is closed, so no connection is
\* left open to read a further message after its wrong-token auth.
C3_BadTokenCloses ==
    \A s \in Sessions : BadAuth(cur[s]) => pc[s] = "closed"

\* C4: once an approval request was denied or timed out and the handler has
\* answered auth_response{success:false}, the connection is closed.
C4_DenialCloses ==
    \A r \in RequestIds :
        (result[r] \in {"denied", "timeout"}
            /\ ~(pc[req_owner[r]] = "approval_done" /\ req[req_owner[r]] = r))
        => pc[req_owner[r]] = "closed"

\* C5: an approval request resolves once: the value of its one-shot channel
\* never changes, the waiting handler observes approved exactly when the user
\* sent an approval, and respond_to_connection on a resolved request returns
\* an error and changes no session's authenticated or approved.
C5_OneOutcome ==
    [][\A r \in RequestIds :
          /\ Resolved(r) => chan'[r] = chan[r]
          /\ result[r] # "none" => result'[r] = result[r]
          /\ Resolved(r) => RespondResult(r) \in {"send_failed", "not_found"}
          /\ \A s \in Sessions :
                (pc'[s] = "approval_done" /\ req'[s] = r)
                    => (approved'[s] <=> chan'[r] = "true")
          /\ \/ authenticated' = authenticated /\ approved' = approved
             \/ \A b \in BOOLEAN : ~(Resolved(r) /\ respond_to_connection(r, b))]_vars

\* the timer fired, and respond_to_connection can still find the sender
C5_Witness ==
    \E r \in RequestIds :
        chan[r] = "closed" /\ r \in pending_connections /\ RespondResult(r) = "send_failed"

\* C6: an approval request nobody answers is eventually resolved by the timer
\* as a denial: the request is removed from pending_connections and
\* pending_requests, the session has been sent auth_response{success:false},
\* and the timed-out handler leaves authenticated as it was.
C6_TimeoutDenies ==
    /\ \A r \in RequestIds :
          (chan[r] = "empty")
              ~> (/\ r \notin pending_connections
                  /\ r \notin Range(pending_requests)
                  /\ Resolved(r)
                  /\ chan[r] = "closed"
                        => (result[r] = "timeout" /\ LastIs(out[req_owner[r]], "auth_fail")))
    /\ [][\A s \in Sessions :
            (pc[s] = "approval_done" /\ pc'[s] # pc[s] /\ chan[req[s]] = "closed")
                => (authenticated'[s] = authenticated[s] /\ LastIs(out'[s], "auth_fail"))]_vars

C6_Witness ==
    \E r \in RequestIds :
        /\ result[r] = "timeout"
        /\ r \notin pending_connections /\ r \notin Range(pending_requests)
        /\ pc[req_owner[r]] = "select" /\ ~authenticated[req_owner[r]]
        /\ LastIs(out[req_owner[r]], "auth_fail")

\* C7: an auth with the valid token and is_external = true authenticates at
\* once, creates no approval request and does not wait; with is_external =
\* false the session is authenticated only by an approved reply.
C7_ExternalSkipsApproval ==
    [][\A s \in Sessions :
          /\ (AnswersAuthNow(s) /\ ValidAuth(cur'[s]) /\ cur'[s].ext)
                => /\ authenticated'[s]
                   /\ pc'[s] = "select"
                   /\ pending_connections' = pending_connections
                   /\ pending_requests' = pending_requests
                   /\ next_request' = next_request
          /\ (authenticated'[s] /\ ~authenticated[s] /\ ~cur'[s].ext)
                => (pc[s] = "approval_done" /\ chan[req[s]] = "true")]_vars

C7_Witness ==
    \E s \in Sessions :
        authenticated[s] /\ ValidAuth(cur[s]) /\ cur[s].ext /\ next_request = 1

\* C8: every auth_response{success:true} written is followed at once by
\* command_list; it is written only by an external auth or after an approved
\* result, and nothing is written while the approval is awaited.
C8_AuthOkThenCommandList ==
    [][\A s \in Sessions :
          /\ \A k \in 1..Len(out[s]) :
                out[s][k] = "auth_ok"
                    => (k < Len(out[s]) /\ out[s][k + 1] = "command_list")
          /\ pc[s] = "await_approval" => out'[s] = out[s]
          /\ (Len(out'[s]) > Len(out[s]) /\ "auth_ok" \in Range(SubSeq(out'[s], Len(out[s]) + 1, Len(out'[s]))))
                => \/ pc[s] = "approval_done" /\ chan[req[s]] = "true"
                   \/ pc[s] = "select" /\ ValidAuth(cur'[s]) /\ cur'[s].ext]_vars

C8_Witness ==
    \E s \in Sessions :
        /\ UserApproved(s)
        /\ Len(out[s]) >= 2
        /\ out[s][Len(out[s]) - 1] = "auth_ok" /\ LastIs(out[s], "command_list")

\* C9: for a session, no binary frame is written to its WebSocket while its
\* data-channel capture loop can send on the data channel, and no packet is
\* sent on the data channel while a frame waits to be forwarded on its
\* WebSocket.
C9_OneTransport ==
    [][\A s \in Sessions :
          /\ ws_sent'[s] > ws_sent[s] => ~DcCanSend(s)
          /\ (\E i \in RtcIds : rtc[i].owner = s /\ rtc'[i].frame_count > rtc[i].frame_count)
                => ~(screen_sharing[s] /\ frame_rx[s] > 0)]_vars

\* C10: the WebSocket capture thread and a data-channel capture loop are
\* never both about to grab the screen: at start_webrtc and at stop_webrtc the
\* old capture task has stopped before the new one grabs.
C10_HandoffOrdered ==
    ~(/\ ws_pc = "capturing" /\ ws_capture_running
      /\ \E i \in RtcIds : rtc[i].loop = "running" /\ ~SeesStop(i))

\* a data-channel capture loop that holds its capturer and goes on grabbing
Alive(i) == rtc[i].loop = "running" /\ ~SeesStop(i)

\* C11: host-wide at most one capture task grabs at any instant:
\* ws_capture_running = true excludes every live data-channel capture loop,
\* and at most one data-channel capture loop is alive.
C11_OneCaptureTask ==
    /\ ws_capture_running => \A i \in RtcIds : ~Alive(i)
    /\ Cardinality({i \in RtcIds : Alive(i)}) <= 1

\* C12: when an authenticated session handles stop_webrtc, it no longer holds
\* a data-channel session, the one it held has capture_running = false and a
\* closed peer connection, and ws_capture_running is true, with or without a
\* session held before; the waiting WebSocket capture thread then re-enters
\* its capture loop unless the flag is lowered again.
C12_StopWebRTCResumes ==
    /\ [][\A s \in Sessions :
            (StopWebRTC(s) /\ authenticated[s])
                => /\ webrtc_session'[s] = NoSession
                   /\ ws_capture_running'
                   /\ webrtc_session[s] # NoSession
                         => /\ ~rtc'[webrtc_session[s]].capture_running
                            /\ rtc'[webrtc_session[s]].dc = "closed"]_vars
    /\ (ws_capture_running /\ ws_pc = "wait")
          ~> (ws_pc = "capturing" \/ ~ws_capture_running)

\* stop_webrtc closed a session and the capture thread is back in its loop
C12_Witness ==
    \E i \in RtcIds :
        /\ rtc[i].dc = "closed" /\ ~rtc[i].capture_running
        /\ webrtc_session[rtc[i].owner] = NoSession
        /\ pc[rtc[i].owner] = "select"
        /\ ws_capture_running /\ ws_pc = "capturing"

\* C13: once the peer connection of a data-channel session has failed, the
\* session is torn down by the host itself: its capture_running is false and
\* the connection that created it no longer holds it.
C13_FailureTearsDown ==
    \A i \in RtcIds :
        rtc[i].dc = "failed"
            => (~rtc[i].capture_running /\ webrtc_session[rtc[i].owner] # i)

\* C14: in video mode the first video packet sent on the data channel after
\* its open event carries a forced intra frame.
C14_FirstPacketIntra == first_sent # "inter"

\* the last encode_bgra call returned Ok
LastOk == last.res \in {"intra", "inter", "empty"}

\* C15: every successful encode_bgra forces an intra frame when frame_count
\* is 0, when frame_count is a multiple of 15, or when force_keyframe() was
\* called since the previous encode; frame_count grows by one on each success
\* and stays on a failure; so at most 14 frames in a row are emitted without a
\* forced intra frame.
C15_KeyframePolicy ==
    /\ LastOk /\ (last.fc = 0 \/ last.fc % keyframe_interval = 0 \/ last.kf)
          => last.res = "intra"
    /\ (encoder.exists /\ LastOk) => encoder.frame_count = last.fc + 1
    /\ (encoder.exists /\ last.res = "err") => encoder.frame_count = last.fc
    /\ run <= keyframe_interval - 1

\* the sixteenth frame of an encoder is the periodic key frame, after a run of
\* fourteen frames without one
C15_Witness ==
    /\ last.fc = keyframe_interval /\ ~last.kf /\ last.res = "intra"
    /\ encoder.frame_count = keyframe_interval + 1

IsVideo == Len(pk_packets) > 0 /\ pk_packets[1].tag # 0

\* C17: every packet handed to the data channel's send is at most 15 x 1024
\* bytes long, tag and header included, in both encoding modes.
C17_PacketLimit ==
    \A i \in 1..pk_next : PacketLen(pk_packets[i]) <= 15 * 1024

\* C18: the fragments of a video frame longer than 15 KiB all carry tag 0x02,
\* the same total = ceil(len / 15360) >= 2 and the frame_id = frame_count mod
\* 2^16 in big-endian bytes, and their indexes are 0..total-1 in emission
\* order, for every frame length.
C18_FragmentHeaders ==
    (IsVideo /\ pk_len > 15360) =>
        LET total == (pk_len + 15359) \div 15360
        IN /\ total >= 2
           /\ Len(pk_packets) = total
           /\ \A i \in 1..Len(pk_packets) :
                 /\ pk_packets[i].tag = 2
                 /\ pk_packets[i].total = total
                 /\ from_be_bytes(pk_packets[i].frame_id) = pk_fc % 65536
                 /\ pk_packets[i].index = i - 1

\* the packets in the order of their index field
InIndexOrder(pkts) ==
    [k \in 1..Len(pkts) |->
        pkts[CHOOSE i \in 1..Len(pkts) :
                Cardinality({j \in 1..Len(pkts) : pkts[j].index < pkts[i].index}) = k - 1]]

\* the payloads one after the other: adjoining slices of the frame join
RECURSIVE Concat(_, _, _)
Concat(pkts, k, acc) ==
    IF k > Len(pkts) THEN acc
    ELSE LET s == [lo |-> pkts[k].lo, hi |-> pkts[k].hi]
         IN IF Len(acc) > 0 /\ acc[Len(acc)].hi = s.lo
            THEN Concat(pkts, k + 1,
                        [acc EXCEPT ![Len(acc)] = [lo |-> acc[Len(acc)].lo, hi |-> s.hi]])
            ELSE Concat(pkts, k + 1, Append(acc, s))

\* strip the tag of a 0x01 packet, or concatenate the payloads after the
\* headers of the 0x02 packets in index order
Reassemble(pkts) ==
    IF pkts[1].tag = 1 THEN <<[lo |-> pkts[1].lo, hi |-> pkts[1].hi]>>
    ELSE Concat(InIndexOrder(pkts), 1, <<>>)

\* C19: packetizing an encoded video frame and reassembling the packets gives
\* back the bytes of the encoded frame, for every frame that yields 1 to 64
\* packets.
C19_RoundTrip ==
    (IsVideo /\ Len(pk_packets) \in 1..64 /\ pk_next = Len(pk_packets))
        => Reassemble(pk_packets) = <<[lo |-> 0, hi |-> pk_len]>>

\* all 64 fragments of a frame have been sent
C19_Witness ==
    /\ IsVideo /\ Len(pk_packets) = 64 /\ pk_next = 64
    /\ pk_packets[64].tag = 2 /\ pk_packets[64].hi = pk_len

\* C20: every binary message written to a client's WebSocket is a frame
\* packet that begins with a one-byte type tag, and the frames sent after
\* start_screen_share are still-image packets: tag 0x00 in front of a JPEG.
C20_WsFramesTagged ==
    \A s \in Sessions :
        ws_binary[s] # NoBinary
            => /\ Len(ws_binary[s].header) = 1
               /\ ws_binary[s].header[1] = 0
               /\ ws_binary[s].payload = "jpeg"

\* the table of scale and start quality by cropped pixel count
ScaleTable(p) ==
    CASE p <= 150000 -> <<1, 80>>
      [] p > 150000 /\ p <= 300000 -> <<1, 65>>
      [] p > 300000 /\ p <= 600000 -> <<2, 70>>
      [] p > 600000 -> <<2, 65>>

\* C21: in still-image mode encode_frame picks (scale, start quality) from
\* the cropped pixel count as the table says, the boundaries included; an
\* 800 x 600 crop gets scale 1/2 and start quality 70.
C21_ScaleTable ==
    /\ st_crop # <<0, 0>> => st_sel = ScaleTable(st_crop[1] * st_crop[2])
    /\ st_crop = <<800, 600>> => st_sel = <<2, 70>>

\* a crop of exactly 600 000 pixels has been scaled
C21_Witness == st_crop = <<600000, 1>> /\ st_sel = <<2, 70>> /\ st_new = <<300000, 0>>

Max(a, b) == IF a > b THEN a ELSE b

\* the rectangle of a region, scaled by k, meets the screen in no pixel
Outside(region, k) ==
    LET ix == Min((region.x + region.width) * k, ScreenW) - Max(region.x * k, 0)
        iy == Min((region.y + region.height) * k, ScreenH) - Max(region.y * k, 0)
    IN ix <= 0 \/ iy <= 0

\* the factor between region coordinates and pixels on a capture path
ScaleOf(path) == IF path = "dc" THEN 1 ELSE path[2]

\* C22: a capture region that lies entirely outside the screen is treated as
\* full screen on both capture paths: the frame produced is the full-screen
\* frame, not a dropped frame and not an edge crop.
C22_OutsideIsFullScreen ==
    [][(rg_frame'.tick # rg_frame.tick /\ capture_region.some
            /\ Outside(capture_region, ScaleOf(rg_frame'.path)))
        => rg_frame'.rect = FullRect]_regionVars

\* C23: handling set_capture_region(R) and later reset_capture_region leaves
\* the capture region at its initial value None, whatever set_viewport
\* messages were handled in between.
C23_SetThenReset ==
    /\ (rg_auth /\ rg_last.kind = "reset") => capture_region = NoRegion
    /\ rg_since \in {"set_reset", "set_viewport_reset"} => capture_region = NoRegion

\* a region was set, a viewport applied to it, and the region reset
C23_Witness ==
    /\ rg_auth /\ rg_since = "set_viewport_reset" /\ rg_last.kind = "reset"
    /\ capture_region = NoRegion

\* C24: set_viewport is idempotent: from every capture-region state, None or
\* Some, handling set_viewport(V) twice in a row leaves the state that
\* handling it once leaves.
C24_ViewportIdempotent ==
    /\ [](\A v \in Viewports :
            ApplyViewport(ApplyViewport(capture_region, v), v)
                = ApplyViewport(capture_region, v))
    /\ [][(rg_last'.kind = "viewport" /\ rg_last'.twice /\ rg_n' # rg_n)
            => capture_region' = capture_region]_regionVars

\* the same set_viewport has been handled twice in a row on a set region
C24_Witness ==
    /\ rg_auth /\ capture_region.some
    /\ rg_last.kind = "viewport" /\ rg_last.twice
    /\ capture_region.viewport_x = 1 /\ rg_last.arg.viewport_x = 1
    /\ capture_region.quality_mode = "low"

\* C25: while a session is not authenticated (idle or waiting for the
\* approval), every control message other than auth is ignored: no control
\* message that arrived in such a state changes state, triggers a call or is
\* answered.
C25_IgnoredUntilAuthenticated ==
    \A m \in cn_honored : m.at = "authenticated"


\* C29: an approval request whose peer disconnects while it is pending is
\* destroyed at the disconnect, without waiting for the decision or for the
\* 30 s timer: once the client has closed, a request still in the pending
\* lists is not held by a handler that only the decision or the timer can wake.
C29_PendingDestroyedOnDisconnect ==
    (cn_peer = "closed" /\ cn_pending) => cn_pc # "await_approval"


\* C26: for focus_app -> focus_result and activate_tab -> activate_tab_result
\* the `success` of the response equals the outcome of the OS call; a failed
\* call is answered with success false.
C26_SuccessIsOutcome ==
    \A r \in cn_replies : r.sent.success = r.call


\* C28: after close() has set capture_running to false the data-channel
\* capture loop eventually exits, whatever its frame counter: a running loop
\* of a closed session is at a head where it reads the flag, or it can still
\* send and so advance its counter to such a head.
C28_LoopExitsAfterClose ==
    \A i \in RtcIds :
        (rtc[i].loop = "running" /\ ~rtc[i].capture_running)
            => (SeesStop(i) \/ rtc[i].dc = "open")

\* C30: the data-channel capture task is started by the open event of the
\* data channel and not earlier: no capture task exists for a session whose
\* data channel has not opened yet.
C30_CaptureStartsOnOpen ==
    \A i \in RtcIds : rtc[i].loop # "none" => rtc[i].dc # "connecting"


\* C27: start_webrtc is honored only while the session holds no data-channel
\* session: handled while one is held, it constructs no second
\* WebRTCScreenShare and does not replace the stored session.
C27_NoSecondSession ==
    [][(/\ cn_pc = "select"
        /\ Len(cn_inbox) > 0
        /\ Head(cn_inbox).type = "start_webrtc"
        /\ cn_inbox' = Tail(cn_inbox)
        /\ cn_webrtc_session # NoSession)
           => /\ cn_constructed' = cn_constructed
              /\ cn_webrtc_session' = cn_webrtc_session]_connVars


\* C31: the quality loop of encode_frame terminates; it goes from the start
\* quality down in steps of 5 and stops at the first output of at most
\* 63 * 1024 bytes; a frame is returned only if it is within that size; None
\* is returned exactly when the encoder failed or the output was still
\* oversize at quality <= 10; quality never goes below 10.
C31_QualityLoop ==
    /\ [](st_q.pc # "idle" => st_q.quality >= 10)
    /\ [](st_q.pc = "Some" => (st_q.ok /\ st_q.len <= max_size))
    /\ [](st_q.pc = "None" => (~st_q.ok \/ (st_q.len > max_size /\ st_q.quality <= 10)))
    /\ [][(st_q.pc = "loop" /\ st_q'.pc = "loop" /\ st_q' # st_q /\ st_crop' = st_crop)
            => /\ st_q'.quality = st_q.quality - 5
               /\ st_q'.ok /\ st_q'.len > max_size]_stillVars
    /\ (st_q.pc = "loop") ~> (st_q.pc \in {"Some", "None"})

\* the loop went all the way from 80 down to 10 and gave the frame up there
C31_Witness ==
    st_sel[2] = 80 /\ st_q = [pc |-> "None", quality |-> 10, len |-> max_size + 1, ok |-> TRUE]


\* C32: set_viewport changes only the viewport fields and quality_mode of an
\* existing capture region and leaves x, y, width, height as they were; with
\* no region set it changes nothing; set_capture_region{x, y, w, h} sets the
\* crop to (x, y, w, h), the viewport to (0, 0, w, h) and quality_mode to
\* "high", whatever viewport was there before.
C32_ViewportOnly ==
    [][/\ (rg_auth /\ rg_n' # rg_n /\ rg_last'.kind = "viewport")
            => IF capture_region.some
               THEN /\ capture_region'.some
                    /\ capture_region'.x = capture_region.x
                    /\ capture_region'.y = capture_region.y
                    /\ capture_region'.width = capture_region.width
                    /\ capture_region'.height = capture_region.height
                    /\ capture_region'.viewport_x = rg_last'.arg.viewport_x
                    /\ capture_region'.viewport_y = rg_last'.arg.viewport_y
                    /\ capture_region'.viewport_width = rg_last'.arg.viewport_width
                    /\ capture_region'.viewport_height = rg_last'.arg.viewport_height
                    /\ capture_region'.quality_mode = rg_last'.arg.quality_mode
               ELSE capture_region' = capture_region
       /\ (rg_auth /\ rg_n' # rg_n /\ rg_last'.kind = "set")
            => capture_region' =
                  [some |-> TRUE,
                   x |-> rg_last'.arg[1], y |-> rg_last'.arg[2],
                   width |-> rg_last'.arg[3], height |-> rg_last'.arg[4],
                   viewport_x |-> 0, viewport_y |-> 0,
                   viewport_width |-> rg_last'.arg[3],
                   viewport_height |-> rg_last'.arg[4],
                   quality_mode |-> "high"]]_regionVars

\* a viewport different from the crop has been applied to a set region
C32_Witness ==
    /\ rg_auth /\ rg_last.kind = "viewport" /\ ~rg_last.twice
    /\ capture_region.some
    /\ capture_region.x = 0 /\ capture_region.width = 2
    /\ capture_region.viewport_x = 1 /\ capture_region.viewport_width = 1
    /\ capture_region.quality_mode = "low"


\* C33: mouse_position is sent only while the session is authenticated and
\* screen sharing is on, and only when the polled position differs from the
\* last one sent on the session: no two consecutive mouse_position messages
\* carry the same (x, y).
C33_MouseCoalesced ==
    /\ [](\A k \in 1..(Len(mouse.out) - 1) : mouse.out[k] # mouse.out[k + 1])
    /\ [](Len(mouse.out) > 0 => mouse.last_mouse_pos = mouse.out[Len(mouse.out)])
    /\ [][Len(mouse'.out) > Len(mouse.out)
            => /\ mouse.authenticated /\ mouse.screen_sharing
               /\ mouse'.out[Len(mouse'.out)] # mouse.last_mouse_pos]_mouse

\* the cursor left a position and came back to it: it was sent both times
C33_Witness ==
    /\ mouse.out = << <<0, 0>>, <<1, 0>>, <<0, 0>> >>
    /\ ~mouse.screen_sharing


\* frame numbers grow along the sequence
Increasing(seq) == \A k \in 1..(Len(seq) - 1) : seq[k] < seq[k + 1]

\* C34: the frame broadcast holds at most 2 frames and the producer is never
\* held up by a slow session: a session that fell behind loses the oldest
\* frames, skips them and goes on receiving the later frames in order, the
\* lag neither closes the session nor ends its subscription, and the producer
\* sends nothing while nobody is subscribed.
C34_BroadcastDropsOldest ==
    /\ [](Len(bc.buf) <= BroadcastCapacity)
    /\ [](Increasing(bc.buf) /\ Increasing(bc.got))
    /\ []((bc.buf # <<>>) => bc.buf[Len(bc.buf)] = bc.tail)
    /\ []((bc.rx # 0 /\ bc.tail < MaxBcFrames) => ENABLED (BcSend /\ bc'.tail = bc.tail + 1))
    /\ [][(bc.rx # 0 /\ bc.rx <= bc.tail /\ bc.rx < Head(bc.buf)
              /\ bc' # bc /\ bc'.tail = bc.tail /\ bc'.rx <= bc.tail)
            => (bc'.open /\ bc'.rx = Head(bc.buf) /\ bc'.got = bc.got)
               \/ (bc.open /\ bc'.rx = 0 /\ bc'.open /\ bc'.got = bc.got)]_bc
    /\ [][bc'.got # bc.got
            => /\ bc'.got = Append(bc.got, bc.rx)
               /\ \E k \in 1..Len(bc.buf) : bc.buf[k] = bc.rx]_bc
    /\ [][bc'.tail # bc.tail => bc.rx # 0]_bc

\* the session fell three frames behind, skipped them and then received the
\* two frames that were kept
C34_Witness ==
    /\ bc.open /\ bc.rx # 0
    /\ bc.got = <<1, 4, 5>>


\* C35: a failure to send one frame does not tear the session down: after a
\* failed write of a frame to the WebSocket the session is still open, still
\* authenticated and still subscribed, so that it goes on with control
\* messages and later frames.
C35_SendFailureKeepsSession ==
    [][\A s \in Sessions :
          ForwardFrame(s, FALSE)
              => /\ pc'[s] = "select"
                 /\ authenticated'[s] = authenticated[s]
                 /\ frame_rx'[s] # NoRx]_vars


\* C36: when the connection of a session that holds a data-channel session
\* closes, the host releases what the session took: the capture loop of that
\* data-channel session is told to stop and ws_capture_running is true again,
\* so that the WebSocket capture thread serves the next session.
C36_CloseReleases ==
    [][\A s \in Sessions :
          (pc[s] # "closed" /\ pc'[s] = "closed" /\ webrtc_session[s] # NoSession)
              => /\ ws_capture_running'
                 /\ ~rtc'[webrtc_session[s]].capture_running]_vars


\* C37: get_connection_status reports connected = true exactly when an
\* authenticated session is open: connected_device is set when a session
\* authenticates and cleared only when that session closes, not when some
\* other connection closes.
C37_ConnectedIffAuthenticated ==
    Connected <=> \E c \in Conns : dev.pc[c] = "open" /\ dev.authenticated[c]


\* a refusal written after a successful authentication on connection s
RefusedAfterAuth(s) ==
    \E j, k \in 1..Len(out[s]) :
        j < k /\ out[s][j] = "auth_ok" /\ out[s][k] = "auth_fail"

\* C38: within one connection `authenticated` never goes back to false before
\* the connection closes: not by a later auth with a wrong token, and not by
\* a later approval that is denied or times out.  Such an attempt is answered
\* with auth_response{success: false}, and the control messages that follow
\* it are still honored.
C38_AuthenticatedMonotonic ==
    [][\A s \in Sessions :
          /\ authenticated[s] /\ pc'[s] # "closed" => authenticated'[s]
          /\ authenticated[s] /\ Len(out'[s]) > Len(out[s])
                 /\ out'[s][Len(out'[s])] = "auth_fail" => authenticated'[s]
          /\ RefusedAfterAuth(s) /\ StartScreenShare(s) => screen_sharing'[s]
          /\ RefusedAfterAuth(s) /\ StartWebRTC(s) => pc'[s] = "webrtc_sleep"]_vars

\* an authenticated connection was refused a later auth, one of its requests
\* was denied or timed out, and it has start_screen_share honored
C38_Witness ==
    \E s \in Sessions :
        /\ authenticated[s] /\ pc[s] = "select"
        /\ RefusedAfterAuth(s)
        /\ screen_sharing[s]
        /\ \E r \in RequestIds : req_owner[r] = s /\ result[r] \in {"denied", "timeout"}


\* requests whose handler still waits for a decision nobody has given
Awaiting == {r \in ApIds : ap.pc[r] = "waiting" /\ ap.chan[r] = "empty"}

\* no Auth handler is between the end of its wait and its two removals
ApQuiescent == \A r \in ApIds : ap.pc[r] # "woken"

\* C39: outside the steps of an Auth handler and of respond_to_connection,
\* pending_requests and pending_connections hold exactly the same request ids,
\* each at most once; the id of a finished handler is in neither;
\* get_pending_request returns the oldest request still awaiting a decision
\* (none when there is none); respond_to_connection with an id that is not
\* pending returns an error and changes nothing.
C39_PendingInStep ==
    /\ [](/\ Range(ap.pending_requests) = ap.pending_connections
          /\ Len(ap.pending_requests) = Cardinality(ap.pending_connections)
          /\ \A r \in ApIds : ap.pc[r] = "done" =>
                 r \notin ap.pending_connections /\ r \notin Range(ap.pending_requests)
          /\ ApQuiescent =>
                 /\ Range(ap.pending_requests) = Awaiting
                 /\ \A r \in Awaiting : get_pending_request <= r
                 /\ (Awaiting = {}) = (get_pending_request = NoRequest))
    /\ [][\A r \in ApIds, b \in BOOLEAN :
              r \notin ap.pending_connections /\ ApRespond(r, b) =>
                  /\ ap'.ret = "not_found"
                  /\ [ap' EXCEPT !.ret = ap.ret] = ap]_ap

\* two requests wait, the older one has been answered and its handler has
\* finished, the poll returns the younger one, and a second answer for the
\* older one was refused
C39_Witness ==
    /\ ApQuiescent
    /\ ap.pc[1] = "done"
    /\ Cardinality(Awaiting) = 2
    /\ get_pending_request = 2
    /\ ap.ret = "not_found"


\* C40: one WebRTCScreenShare spawns at most one capture loop between its
\* construction and close(): a repeated webrtc_answer starts no second loop;
\* capture_running becomes false only in close(); and a loop that ended by
\* itself (ten failed acquisitions, or a hard capture error) leaves
\* capture_running true, so that start_capture on that session starts nothing.
C40_OneCaptureLoop ==
    /\ [](/\ cap.spawns <= 1
          /\ cap.spawns = 1 <=> cap.loop # "none"
          /\ cap.loop = "ended" /\ ~cap.closed => cap.capture_running)
    /\ [][/\ cap.capture_running /\ ~cap'.capture_running =>
                 ~cap.closed /\ cap'.closed /\ cap'.last = "close"
          /\ cap.loop # "ended" /\ cap'.loop = "ended" /\ cap'.last # "exit" =>
                 cap'.capture_running = cap.capture_running
          /\ cap.loop # "none" /\ cap'.answers > cap.answers =>
                 cap'.loop = cap.loop /\ cap'.spawns = cap.spawns]_cap

\* the acquisition failed ten times, the loop ended by itself, the session was
\* not closed, and the webrtc_answer that came afterwards started nothing
C40_Witness ==
    /\ cap.loop = "ended"
    /\ cap.attempt = AcquireAttempts
    /\ ~cap.closed
    /\ cap.capture_running
    /\ cap.spawns = 1
    /\ cap.answers >= 2
    /\ cap.last = "answer"

====
